---- MODULE Spec2Model ----
(***************************************************************************)
(* Model of the ownership-checked core of the gaut language:               *)
(*   - the static checker  (crates/frontend/src/typecheck.rs)              *)
(*   - the evaluator       (crates/interp/src/lib.rs)                      *)
(*   - the code generator  (crates/cgen/src/lib.rs), in outline            *)
(*   - the command line    (crates/cli/src/main.rs)                        *)
(* A program (the AST of crates/frontend/src/ast.rs) is drawn in Init from *)
(* a bounded family; the checker's check_program and the interpreter's     *)
(* load_program / run_main then run on it.  The interpreter is a library   *)
(* that does not call the checker: used as a library (cmode "lib") it is    *)
(* run once check_program has returned, whatever it returned.  The command *)
(* line (modes "run" and "emit") drives the same objects in the order of   *)
(* run_interpreter and emit_and_maybe_build.                               *)
(* The bump arena of crates/runtime/src/arena.rs is modelled twice: as the *)
(* field of the evaluator's environment, which only ever resets it, and    *)
(* as a free-standing object (variable arena) driven by arbitrary alloc    *)
(* and reset calls, with the ghost variable ahist recording the regions    *)
(* handed out since the last reset and the last call.                      *)
(*                                                                         *)
(* Both objects carry a ghost field `log`: the sequence of binding events  *)
(* (declaration, read with its mode and outcome, assignment) in the order  *)
(* the code performs them.  The log changes no decision of the code.       *)
(***************************************************************************)
EXTENDS Integers, Sequences, FiniteSets, TLC

VARIABLES prog, cmode, gres, tc, cpc, gi, funcs_to_check, pending, queue, deferred,
          progressed, cres, passes, fres, interp, ipc, lres, rres, rlog, rout, runs,
          rhist, arena, ahist

vars == <<prog, cmode, gres, tc, cpc, gi, funcs_to_check, pending, queue, deferred,
          progressed, cres, passes, fres, interp, ipc, lres, rres, rlog, rout, runs,
          rhist, arena, ahist>>

(***************************************************************************)
(* Generic helpers: hash maps as functions over a finite set of keys,      *)
(* Option<T> as a sequence of length 0 (None) or 1 (Some).                 *)
(***************************************************************************)
EmptyMap == [n \in {} |-> TRUE]

Put(m, key, v) == [n \in (DOMAIN m) \cup {key} |-> IF n = key THEN v ELSE m[n]]

\* `let r = <value>;` followed by the code that uses r
Bind(r, K(_)) == K(r)

None == << >>

Some(v) == <<v>>

MaxOf(S) == CHOOSE m \in S : \A o \in S : o <= m

Max2(a, b) == IF a >= b THEN a ELSE b

(***************************************************************************)
(* ast.rs: types                                                           *)
(***************************************************************************)
Named(n) == [k |-> "Named", n |-> n]

RefT(t) == [k |-> "Ref", t |-> t]

RecordT(fs) == [k |-> "Record", fs |-> fs]

FieldType(name, ty) == [name |-> name, ty |-> ty]

Param(mutable, name, ty) == [mutable |-> mutable, name |-> name, ty |-> ty]

(***************************************************************************)
(* ast.rs: expressions, statements, declarations                           *)
(***************************************************************************)
LitInt(i) == [k |-> "Literal", lit |-> [k |-> "Int", i |-> i]]

LitBool(b) == [k |-> "Literal", lit |-> [k |-> "Bool", b |-> b]]

LitStr(s) == [k |-> "Literal", lit |-> [k |-> "Str", s |-> s]]

LitUnit == [k |-> "Literal", lit |-> [k |-> "Unit"]]

PathE(p) == [k |-> "Path", p |-> p]

CopyE(e) == [k |-> "Copy", inner |-> e]

RefE(e) == [k |-> "Ref", inner |-> e]

FuncCall(name, args) == [k |-> "FuncCall", callee |-> <<name>>, args |-> args]

IfE(c, t, e) == [k |-> "If", cond |-> c, then_branch |-> t, else_branch |-> e]

BlockE(stmts, tail) == [k |-> "Block", stmts |-> stmts, tail |-> tail]

RecordLit(fields) == [k |-> "RecordLit", fields |-> fields]

FieldInit(name, value) == [name |-> name, value |-> value]

Unary(op, e) == [k |-> "Unary", op |-> op, expr |-> e]

Binary(l, op, r) == [k |-> "Binary", left |-> l, op |-> op, right |-> r]

BindingS(mutable, name, ty, value) ==
    [k |-> "Binding", mutable |-> mutable, name |-> name, ty |-> ty, value |-> value]

AssignS(target, value) == [k |-> "Assign", target |-> target, value |-> value]

ExprS(e) == [k |-> "Expr", e |-> e]

GlobalD(mutable, name, ty, value) ==
    [k |-> "Global", b |-> BindingS(mutable, name, ty, value)]

LetD(mutable, name, ty, value) ==
    [k |-> "Let", b |-> BindingS(mutable, name, ty, value)]

ImportD(module) == [k |-> "Import", module |-> module]

TypeD(name, ty) == [k |-> "Type", name |-> name, ty |-> ty]

FuncD(name, params, ret, body) ==
    [k |-> "Func", name |-> name, params |-> params, ret |-> ret, body |-> body]

(***************************************************************************)
(* typecheck.rs: errors and results                                        *)
(***************************************************************************)
\* the payload `a` of an error is a sequence of identifiers (a name, or the
\* segments of a path), empty when the error carries none
OkE == [e |-> "Ok", a |-> << >>]

Err(kind, arg) == [e |-> kind, a |-> arg]

TyInfo(ty, origin_depth, escapable) ==
    [ty |-> ty, origin_depth |-> origin_depth, escapable |-> escapable]

NoInfo == TyInfo(Named("Unit"), 0, FALSE)

\* Ok(info) of a checker method, with the checker state after the call
COk(c, info) == [err |-> OkE, tc |-> c, info |-> info]

\* Err(e) of a checker method, with the checker state at the early return
CFail(c, e) == [err |-> e, tc |-> c, info |-> NoInfo]

IsOk(r) == r.err.e = "Ok"

Event(ev, mode, name, depth, res) ==
    [ev |-> ev, mode |-> mode, name |-> name, depth |-> depth, res |-> res]

\* a read event, with the path that was read (name is its head)
ReadEvent(mode, path, depth, res) ==
    [ev |-> "read", mode |-> mode, name |-> path[1], depth |-> depth, res |-> res,
     path |-> path]

Logged(c, event) == [c EXCEPT !.log = Append(@, event)]

(***************************************************************************)
(* typecheck.rs: TypeChecker::new                                          *)
(***************************************************************************)
BuiltinTypeNames == {"i32", "i64", "u8", "bool", "Str", "Bytes", "Unit"}

ReadFileResultTy ==
    RecordT(<<FieldType("ok", Named("bool")), FieldType("data", Named("Str"))>>)

FuncSig(params, ret) == [params |-> params, ret |-> ret]

StrParam(name) == Param(FALSE, name, Named("Str"))

BuiltinFuncs ==
    [n \in {"print", "println", "read_file", "write_file", "args", "bytes_to_str",
            "try_read_file", "try_write_file", "str_len", "str_byte_at", "str_slice"} |->
       CASE n = "print" -> FuncSig(<<StrParam("msg")>>, Some(Named("Str")))
         [] n = "println" -> FuncSig(<<StrParam("msg")>>, Some(Named("Str")))
         [] n = "read_file" -> FuncSig(<<StrParam("path")>>, Some(Named("Str")))
         [] n = "write_file" ->
              FuncSig(<<StrParam("path"), StrParam("data")>>, Some(Named("Unit")))
         [] n = "args" -> FuncSig(<< >>, Some(Named("Bytes")))
         [] n = "bytes_to_str" ->
              FuncSig(<<Param(FALSE, "buf", Named("Bytes"))>>, Some(Named("Str")))
         [] n = "try_read_file" ->
              FuncSig(<<StrParam("path")>>, Some(Named("ReadFileResult")))
         [] n = "try_write_file" ->
              FuncSig(<<StrParam("path"), StrParam("data")>>, Some(Named("bool")))
         [] n = "str_len" -> FuncSig(<<StrParam("s")>>, Some(Named("i32")))
         [] n = "str_byte_at" ->
              FuncSig(<<StrParam("s"), Param(FALSE, "i", Named("i32"))>>,
                      Some(Named("i32")))
         [] n = "str_slice" ->
              FuncSig(<<StrParam("s"), Param(FALSE, "start", Named("i32")),
                        Param(FALSE, "len", Named("i32"))>>, Some(Named("Str")))]

TypeCheckerNew ==
    [types |-> [n \in BuiltinTypeNames \cup {"ReadFileResult"} |->
                  IF n = "ReadFileResult" THEN ReadFileResultTy ELSE Named(n)],
     builtins |-> BuiltinTypeNames \cup {"ReadFileResult"},
     funcs |-> BuiltinFuncs,
     scopes |-> << >>,
     log |-> << >>,
     esc_log |-> << >>]

(***************************************************************************)
(* typecheck.rs: type resolution and comparison                            *)
(***************************************************************************)
RECURSIVE type_contains_ref(_)
type_contains_ref(ty) ==
    CASE ty.k = "Ref" -> TRUE
      [] ty.k = "Record" ->
           \E i \in 1..Len(ty.fs) : type_contains_ref(ty.fs[i].ty)
      [] OTHER -> FALSE

\* nested calls of a recursive function the stack of the process can hold
MaxResolveDepth == 8

\* the outcome of a recursion that exhausts the stack
Overflow == [k |-> "StackOverflow"]

\* Result<Type, TypeError> as [err, ty]; depth counts the nested calls of
\* resolve_type, and a recursion deeper than the stack holds ends the process
RECURSIVE resolve_type_at(_, _, _)
RECURSIVE resolve_fields(_, _, _, _, _)
resolve_fields(c, fields, i, out, depth) ==
    IF i > Len(fields) THEN [err |-> OkE, ty |-> RecordT(out)]
    ELSE Bind(resolve_type_at(c, fields[i].ty, depth + 1), LAMBDA r :
            IF r.err.e # "Ok" THEN r
            ELSE resolve_fields(c, fields, i + 1,
                                Append(out, FieldType(fields[i].name, r.ty)), depth))

resolve_type_at(c, ty, depth) ==
    IF depth >= MaxResolveDepth THEN [err |-> Err("StackOverflow", << >>), ty |-> Overflow]
    ELSE
    CASE ty.k = "Named" ->
           IF ty.n \in DOMAIN c.types
           THEN IF ty.n \in c.builtins
                THEN [err |-> OkE, ty |-> c.types[ty.n]]
                ELSE resolve_type_at(c, c.types[ty.n], depth + 1)
           ELSE [err |-> Err("UnknownType", <<ty.n>>), ty |-> ty]
      [] ty.k = "Ref" ->
           Bind(resolve_type_at(c, ty.t, depth + 1), LAMBDA r :
              IF r.err.e # "Ok" THEN r ELSE [err |-> OkE, ty |-> RefT(r.ty)])
      [] ty.k = "Record" -> resolve_fields(c, ty.fs, 1, << >>, depth)

resolve_type(c, ty) == resolve_type_at(c, ty, 0)

\* Result<bool, TypeError> as [err, eq]
RECURSIVE type_eq(_, _, _)
type_eq(c, a, b) ==
    Bind(resolve_type(c, a), LAMBDA ra :
        Bind(resolve_type(c, b), LAMBDA rb :
       IF ra.err.e # "Ok" THEN [err |-> ra.err, eq |-> FALSE]
       ELSE IF rb.err.e # "Ok" THEN [err |-> rb.err, eq |-> FALSE]
       ELSE CASE ra.ty.k = "Named" /\ rb.ty.k = "Named" ->
                   [err |-> OkE, eq |-> ra.ty.n = rb.ty.n]
              [] ra.ty.k = "Ref" /\ rb.ty.k = "Ref" -> type_eq(c, ra.ty.t, rb.ty.t)
              [] ra.ty.k = "Record" /\ rb.ty.k = "Record" ->
                   IF Len(ra.ty.fs) # Len(rb.ty.fs) THEN [err |-> OkE, eq |-> FALSE]
                   ELSE [err |-> OkE,
                         eq |-> \A i \in 1..Len(ra.ty.fs) :
                                  /\ ra.ty.fs[i].name = rb.ty.fs[i].name
                                  /\ Bind(type_eq(c, ra.ty.fs[i].ty, rb.ty.fs[i].ty), LAMBDA fe :
                                        fe.err.e = "Ok" /\ fe.eq)]
              [] OTHER -> [err |-> OkE, eq |-> FALSE]))

\* Result<(), TypeError> as an error value (OkE for Ok(()))
ensure_type(c, expected, found) ==
    Bind(type_eq(c, expected, found), LAMBDA r :
       IF r.err.e # "Ok" THEN r.err
       ELSE IF r.eq THEN OkE ELSE Err("TypeMismatch", << >>))

ensure_not_escape(info, target_depth) ==
    IF info.origin_depth > target_depth
       /\ (~info.escapable \/ type_contains_ref(info.ty))
    THEN Err("Escape", << >>)
    ELSE OkE

literal_type(lit) ==
    CASE lit.k = "Int" -> Named("i32")
      [] lit.k = "Bool" -> Named("bool")
      [] lit.k = "Str" -> Named("Str")
      [] lit.k = "Unit" -> Named("Unit")

\* path_to_string: the dotted string is represented by its segments
path_to_string(p) == p

(***************************************************************************)
(* typecheck.rs: scope stack                                               *)
(***************************************************************************)
push_scope(c) == [c EXCEPT !.scopes = Append(@, EmptyMap)]

pop_scope(c) ==
    [c EXCEPT !.scopes = IF Len(@) = 0 THEN @ ELSE SubSeq(@, 1, Len(@) - 1)]

current_depth(c) == IF Len(c.scopes) = 0 THEN 0 ELSE Len(c.scopes) - 1

BindingInfo(ty, mutable, moved, origin_depth) ==
    [ty |-> ty, mutable |-> mutable, moved |-> moved, origin_depth |-> origin_depth]

\* an insert that keeps the binding a name already has in the innermost scope
insert_var_keep(c, name, ty, mutable, origin_depth) ==
    IF Len(c.scopes) = 0 THEN c
    ELSE IF name \in DOMAIN c.scopes[Len(c.scopes)]
    THEN Logged(c, Event("decl", "-", name, Len(c.scopes) - 1, "Ok"))
    ELSE Logged([c EXCEPT !.scopes[Len(c.scopes)] =
                     Put(@, name, BindingInfo(ty, mutable, FALSE, origin_depth))],
                Event("decl", "-", name, Len(c.scopes) - 1, "Ok"))

insert_var(c, name, ty, mutable, origin_depth) ==
    IF Len(c.scopes) = 0 THEN c
    ELSE Logged([c EXCEPT !.scopes[Len(c.scopes)] =
                     Put(@, name, BindingInfo(ty, mutable, FALSE, origin_depth))],
                Event("decl", "-", name, Len(c.scopes) - 1, "Ok"))

\* index (1-based) of the innermost scope that binds `head`, 0 when none does
FindScope(scopes, head) ==
    Bind({i \in 1..Len(scopes) : head \in DOMAIN scopes[i]}, LAMBDA S :
       IF S = {} THEN 0 ELSE MaxOf(S))

\* a field walk that stops at a reference
UnwrapRefNever(ty) == ty

\* the loop of lookup_binding that unwraps references before a field step
RECURSIVE UnwrapRef(_)
UnwrapRef(ty) == IF ty.k = "Ref" THEN UnwrapRef(ty.t) ELSE ty

\* the field walk of lookup_binding: [err, ty]
RECURSIVE WalkFields(_, _, _)
WalkFields(ty, rest, i) ==
    IF i > Len(rest) THEN [err |-> OkE, ty |-> ty]
    ELSE Bind(UnwrapRef(ty), LAMBDA u :
            IF u.k = "Record"
            THEN Bind({j \in 1..Len(u.fs) : u.fs[j].name = rest[i]}, LAMBDA S :
                    IF S = {} THEN [err |-> Err("UnknownIdent", <<rest[i]>>), ty |-> ty]
                    ELSE WalkFields(u.fs[CHOOSE j \in S : \A o \in S : j <= o].ty,
                                    rest, i + 1))
            ELSE [err |-> Err("UnknownIdent", <<rest[i]>>), ty |-> ty])

\* Result<(usize, BindingInfo), TypeError> as [err, depth, info]
lookup_binding(c, path) ==
    IF Len(path) = 0
    THEN [err |-> Err("UnknownIdent", <<"">>), depth |-> 0, info |-> NoInfo]
    ELSE Bind(FindScope(c.scopes, path[1]), LAMBDA s :
            IF s = 0
            THEN [err |-> Err("UnknownIdent", <<path[1]>>), depth |-> 0, info |-> NoInfo]
            ELSE Bind(c.scopes[s][path[1]], LAMBDA b :
                     Bind(WalkFields(b.ty, Tail(path), 1), LAMBDA w :
                    IF w.err.e # "Ok"
                    THEN [err |-> w.err, depth |-> 0, info |-> NoInfo]
                    ELSE [err |-> OkE, depth |-> s - 1,
                          info |-> BindingInfo(w.ty, b.mutable, b.moved, b.origin_depth)])))

\* set_moved: callers reach it only after lookup_binding succeeded on the same path
\* a set_moved that records a move of the whole binding only
set_moved_whole_only(c, path, moved) ==
    IF Len(path) > 1 THEN c
    ELSE Bind(FindScope(c.scopes, path[1]), LAMBDA s :
            IF s = 0 THEN c ELSE [c EXCEPT !.scopes[s][path[1]].moved = moved])

\* a set_moved that records nothing
set_moved_noop(c, path, moved) == c

set_moved(c, path, moved) ==
    Bind(FindScope(c.scopes, path[1]), LAMBDA s :
       IF s = 0 THEN c ELSE [c EXCEPT !.scopes[s][path[1]].moved = moved])

(***************************************************************************)
(* typecheck.rs: the expression / statement walker.  Every method returns  *)
(* [err, tc, info]: on an early return (`?`) tc is the checker state at    *)
(* that point, with everything done so far (moved flags, pushed scopes).   *)
(***************************************************************************)
\* ghost: one event per application of the escape rule (site: the binding,
\* assignment, block tail or function result it is applied to; "blockret" is the
\* TyInfo a block returns, with the block as expr), with the value
\* checked, whether its type contains a Ref once aliases are resolved, the target
\* depth and the outcome; `valued` is FALSE when the value expression itself
\* failed to check, and res is then that failure
EscEvent(c, site, expr, info, target, allow, res) ==
    [site |-> site, expr |-> expr, valued |-> TRUE, info |-> info,
     rref |-> Bind(resolve_type(c, info.ty), LAMBDA r :
                 r.err.e = "Ok" /\ type_contains_ref(r.ty)),
     target |-> target, allow |-> allow, res |-> res]

EscNoValue(site, expr, target, res) ==
    [site |-> site, expr |-> expr, valued |-> FALSE, info |-> NoInfo, rref |-> FALSE,
     target |-> target, allow |-> TRUE, res |-> res]

EscLogged(c, event) == [c EXCEPT !.esc_log = Append(@, event)]

\* an eval_path that consumes the binding in every mode
eval_path_consuming(c, path, mode) ==
    Bind(lookup_binding(c, path), LAMBDA l :
       IF l.err.e # "Ok" THEN CFail(c, l.err)
       ELSE IF l.info.moved
       THEN CFail(Logged(c, ReadEvent(mode, path, l.depth, "Moved")),
                  Err("Moved", path_to_string(path)))
       ELSE COk(Logged(set_moved(c, path, TRUE),
                       ReadEvent(mode, path, l.depth, "Ok")),
                TyInfo(l.info.ty, l.info.origin_depth, FALSE)))

eval_path(c, path, mode) ==
    Bind(lookup_binding(c, path), LAMBDA l :
       IF l.err.e # "Ok" THEN CFail(c, l.err)
       ELSE IF l.info.moved
       THEN CFail(Logged(c, ReadEvent(mode, path, l.depth, "Moved")),
                  Err("Moved", path_to_string(path)))
       ELSE Bind(IF mode = "Move" THEN set_moved(c, path, TRUE) ELSE c, LAMBDA c1 :
               COk(Logged(c1, ReadEvent(mode, path, l.depth, "Ok")),
                   TyInfo(l.info.ty, l.info.origin_depth, FALSE))))

\* arithmetic on i32 only
arith_type_int_only(c, lty, rty) ==
    Bind(type_eq(c, lty, Named("i32")), LAMBDA li :
        Bind(type_eq(c, rty, Named("i32")), LAMBDA ri :
       IF li.err.e # "Ok" THEN [err |-> li.err, ty |-> lty]
       ELSE IF li.eq /\ ri.err.e # "Ok" THEN [err |-> ri.err, ty |-> lty]
       ELSE IF li.eq /\ ri.eq THEN [err |-> OkE, ty |-> Named("i32")]
       ELSE [err |-> Err("TypeMismatch", << >>), ty |-> lty]))

\* the arithmetic branch of Expr::Binary: [err, ty]
arith_type(c, lty, rty) ==
    Bind(type_eq(c, lty, Named("i32")), LAMBDA li :
        Bind(type_eq(c, rty, Named("i32")), LAMBDA ri :
        Bind(type_eq(c, lty, Named("Str")), LAMBDA ls :
        Bind(type_eq(c, rty, Named("Str")), LAMBDA rs :
       IF li.err.e # "Ok" THEN [err |-> li.err, ty |-> lty]
       ELSE IF li.eq /\ ri.err.e # "Ok" THEN [err |-> ri.err, ty |-> lty]
       ELSE IF li.eq /\ ri.eq THEN [err |-> OkE, ty |-> Named("i32")]
       ELSE IF ls.err.e # "Ok" THEN [err |-> ls.err, ty |-> lty]
       ELSE IF ls.eq /\ rs.err.e # "Ok" THEN [err |-> rs.err, ty |-> lty]
       ELSE IF ls.eq /\ rs.eq THEN [err |-> OkE, ty |-> Named("Str")]
       ELSE [err |-> Err("TypeMismatch", << >>), ty |-> lty]))))

RECURSIVE check_expr(_, _, _)
RECURSIVE check_block(_, _, _)
RECURSIVE check_stmts(_, _, _)
RECURSIVE check_args(_, _, _, _)
RECURSIVE check_fields(_, _, _, _, _, _)

check_binding(c, binding, depth) ==
    Bind(resolve_type(c, binding.ty), LAMBDA ta :
       IF ta.err.e # "Ok" THEN CFail(c, ta.err)
       ELSE Bind(check_expr(c, binding.value, "Move"), LAMBDA v :
               IF ~IsOk(v)
               THEN CFail(EscLogged(v.tc, EscNoValue("binding", binding.value, depth,
                                                     v.err.e)), v.err)
               ELSE Bind(ensure_not_escape(v.info, depth), LAMBDA e1 :
                        Bind( EscLogged(v.tc, EscEvent(v.tc, "binding", binding.value, v.info,
                                                       depth, TRUE, e1.e)), LAMBDA c1 :
                       IF e1.e # "Ok" THEN CFail(c1, e1)
                       ELSE Bind(ensure_type(c1, ta.ty, v.info.ty), LAMBDA e2 :
                               IF e2.e # "Ok" THEN CFail(c1, e2)
                               ELSE COk(insert_var(c1, binding.name, ta.ty,
                                                   binding.mutable, depth), NoInfo))))))

check_assign(c, assign) ==
    Bind(lookup_binding(c, assign.target), LAMBDA l :
       IF l.err.e # "Ok" THEN CFail(c, l.err)
       ELSE IF ~l.info.mutable
       THEN CFail(c, Err("NotMutable", path_to_string(assign.target)))
       ELSE Bind(check_expr(c, assign.value, "Move"), LAMBDA v :
               IF ~IsOk(v)
               THEN CFail(EscLogged(v.tc, EscNoValue("assign", assign.value, l.depth,
                                                     v.err.e)), v.err)
               ELSE Bind(ensure_not_escape(v.info, l.depth), LAMBDA e1 :
                        Bind( EscLogged(v.tc, EscEvent(v.tc, "assign", assign.value, v.info,
                                                       l.depth, TRUE, e1.e)), LAMBDA c1 :
                       IF e1.e # "Ok" THEN CFail(c1, e1)
                       ELSE Bind(ensure_type(c1, l.info.ty, v.info.ty), LAMBDA e2 :
                               IF e2.e # "Ok" THEN CFail(c1, e2)
                               ELSE COk(Logged(set_moved(c1, assign.target, FALSE),
                                               Event("assign", "-", assign.target[1],
                                                     FindScope(c1.scopes, assign.target[1]) - 1,
                                                     "Ok")),
                                        NoInfo))))))

check_stmt(c, stmt) ==
    CASE stmt.k = "Binding" -> check_binding(c, stmt, current_depth(c))
      [] stmt.k = "Assign" -> check_assign(c, stmt)
      [] stmt.k = "Expr" -> check_expr(c, stmt.e, "Move")

check_stmts(c, stmts, i) ==
    IF i > Len(stmts) THEN COk(c, NoInfo)
    ELSE Bind(check_stmt(c, stmts[i]), LAMBDA r :
            IF ~IsOk(r) THEN r ELSE check_stmts(r.tc, stmts, i + 1))

\* the escape test check_block applies to its tail value
block_tail_escape(info, depth, allow_escape_values) ==
    IF info.origin_depth > depth
    THEN IF ~allow_escape_values \/ type_contains_ref(info.ty) \/ ~info.escapable
         THEN Err("Escape", << >>)
         ELSE OkE
    ELSE ensure_not_escape(info, depth)

\* a block result that keeps the escapable flag of the tail value
block_result_keep(info, depth, allow_escape_values) ==
    IF allow_escape_values
    THEN TyInfo(info.ty, depth, ~type_contains_ref(info.ty))
    ELSE TyInfo(info.ty, info.origin_depth, info.escapable)

\* the TyInfo check_block returns for a tail value
block_result(info, depth, allow_escape_values) ==
    IF allow_escape_values
    THEN TyInfo(info.ty, depth, ~type_contains_ref(info.ty))
    ELSE TyInfo(info.ty, info.origin_depth, FALSE)

check_block(c, block, allow_escape_values) ==
    Bind(push_scope(c), LAMBDA c0 :
        Bind(current_depth(c0), LAMBDA depth :
        Bind(check_stmts(c0, block.stmts, 1), LAMBDA s :
       IF ~IsOk(s) THEN s
       ELSE IF Len(block.tail) = 0
       THEN COk(pop_scope(EscLogged(s.tc, EscEvent(s.tc, "blockret", block,
                                                   TyInfo(Named("Unit"), depth, TRUE),
                                                   depth, allow_escape_values, "Ok"))),
                TyInfo(Named("Unit"), depth, TRUE))
       ELSE Bind(check_expr(s.tc, block.tail[1], "Move"), LAMBDA t :
               IF ~IsOk(t) THEN t
               ELSE Bind(block_tail_escape(t.info, depth, allow_escape_values), LAMBDA e1 :
                        Bind( EscLogged(t.tc, EscEvent(t.tc, "block", block.tail[1], t.info,
                                                       depth, allow_escape_values, e1.e)), LAMBDA c1 :
                       IF e1.e # "Ok" THEN CFail(c1, e1)
                       ELSE COk(pop_scope(EscLogged(c1,
                                    EscEvent(c1, "blockret", block,
                                             block_result(t.info, depth,
                                                          allow_escape_values),
                                             depth, allow_escape_values, "Ok"))),
                                block_result(t.info, depth, allow_escape_values))))))))

\* the argument loop of eval_call
check_args(c, args, params, i) ==
    IF i > Len(args) THEN COk(c, NoInfo)
    ELSE Bind(check_expr(c, args[i], "Move"), LAMBDA a :
            IF ~IsOk(a) THEN a
            ELSE Bind(resolve_type(a.tc, params[i].ty), LAMBDA pty :
                    IF pty.err.e # "Ok" THEN CFail(a.tc, pty.err)
                    ELSE Bind(ensure_type(a.tc, pty.ty, a.info.ty), LAMBDA e :
                            IF e.e # "Ok" THEN CFail(a.tc, e)
                            ELSE check_args(a.tc, args, params, i + 1))))

eval_call(c, call) ==
    IF Len(call.callee) # 1
    THEN CFail(c, Err("UnknownFunc", path_to_string(call.callee)))
    ELSE Bind(call.callee[1], LAMBDA name :
            IF name \notin DOMAIN c.funcs THEN CFail(c, Err("UnknownFunc", <<name>>))
            ELSE Bind(c.funcs[name], LAMBDA sig :
                    IF Len(sig.params) # Len(call.args)
                    THEN CFail(c, Err("ArityMismatch", << >>))
                    ELSE Bind(check_args(c, call.args, sig.params, 1), LAMBDA a :
                            IF ~IsOk(a) THEN a
                            ELSE IF Len(sig.ret) = 0
                            THEN CFail(a.tc, Err("UnknownFuncReturn", <<name>>))
                            ELSE COk(a.tc, TyInfo(sig.ret[1], current_depth(a.tc),
                                                  ~type_contains_ref(sig.ret[1]))))))

\* the field loop of Expr::RecordLit
check_fields(c, fields, i, out, max_depth, escapable) ==
    IF i > Len(fields) THEN COk(c, TyInfo(RecordT(out), max_depth, escapable))
    ELSE Bind(check_expr(c, fields[i].value, "Move"), LAMBDA v :
            IF ~IsOk(v) THEN v
            ELSE check_fields(v.tc, fields, i + 1,
                              Append(out, FieldType(fields[i].name, v.info.ty)),
                              Max2(max_depth, v.info.origin_depth),
                              escapable /\ v.info.escapable))

check_expr(c, expr, mode) ==
    CASE expr.k = "Literal" ->
           COk(c, TyInfo(literal_type(expr.lit), current_depth(c), TRUE))
      [] expr.k = "Path" -> eval_path(c, expr.p, mode)
      [] expr.k = "Copy" -> check_expr(c, expr.inner, "Copy")
      [] expr.k = "Ref" ->
           Bind(check_expr(c, expr.inner, "Borrow"), LAMBDA r :
              IF ~IsOk(r) THEN r
              ELSE COk(r.tc, TyInfo(RefT(r.info.ty), r.info.origin_depth,
                                    r.info.escapable)))
      [] expr.k = "FuncCall" -> eval_call(c, expr)
      [] expr.k = "If" ->
           Bind(check_expr(c, expr.cond, "Move"), LAMBDA cd :
              IF ~IsOk(cd) THEN cd
              ELSE Bind(ensure_type(cd.tc, Named("bool"), cd.info.ty), LAMBDA e0 :
                      IF e0.e # "Ok" THEN CFail(cd.tc, e0)
                      ELSE Bind(check_expr(cd.tc, expr.then_branch, "Move"), LAMBDA t :
                              IF ~IsOk(t) THEN t
                              ELSE Bind(check_expr(t.tc, expr.else_branch, "Move"), LAMBDA e :
                                      IF ~IsOk(e) THEN e
                                      ELSE Bind(ensure_type(e.tc, t.info.ty, e.info.ty), LAMBDA e1 :
                                              IF e1.e # "Ok" THEN CFail(e.tc, e1)
                                              ELSE COk(e.tc,
                                                       TyInfo(t.info.ty,
                                                              Max2(t.info.origin_depth,
                                                                   e.info.origin_depth),
                                                              t.info.escapable
                                                                /\ e.info.escapable)))))))
      [] expr.k = "Block" -> check_block(c, expr, FALSE)
      [] expr.k = "RecordLit" ->
           check_fields(c, expr.fields, 1, << >>, current_depth(c), TRUE)
      [] expr.k = "Unary" ->
           Bind(check_expr(c, expr.expr, "Move"), LAMBDA v :
              IF ~IsOk(v) THEN v
              ELSE Bind(    ensure_type(v.tc,
                                        IF expr.op = "Neg" THEN Named("i32")
                                        ELSE Named("bool"),
                                        v.info.ty), LAMBDA e :
                      IF e.e # "Ok" THEN CFail(v.tc, e) ELSE v))
      [] expr.k = "Binary" ->
           Bind(check_expr(c, expr.left, "Move"), LAMBDA l :
              IF ~IsOk(l) THEN l
              ELSE Bind(check_expr(l.tc, expr.right, "Move"), LAMBDA r :
                      IF ~IsOk(r) THEN r
                      ELSE Bind(Max2(l.info.origin_depth, r.info.origin_depth), LAMBDA od :
                               Bind(l.info.escapable /\ r.info.escapable, LAMBDA esc :
                              CASE expr.op \in {"Add", "Sub", "Mul", "Div"} ->
                                     Bind(arith_type(r.tc, l.info.ty, r.info.ty), LAMBDA a :
                                        IF a.err.e # "Ok" THEN CFail(r.tc, a.err)
                                        ELSE COk(r.tc, TyInfo(a.ty, od, esc)))
                                [] expr.op \in {"Lt", "Eq"} ->
                                     Bind(ensure_type(r.tc, l.info.ty, r.info.ty), LAMBDA e :
                                        IF e.e # "Ok" THEN CFail(r.tc, e)
                                        ELSE COk(r.tc, TyInfo(Named("bool"), od, esc)))
                                [] expr.op \in {"And", "Or"} ->
                                     Bind(ensure_type(r.tc, Named("bool"), l.info.ty), LAMBDA e1 :
                                         Bind(ensure_type(r.tc, Named("bool"), r.info.ty), LAMBDA e2 :
                                        IF e1.e # "Ok" THEN CFail(r.tc, e1)
                                        ELSE IF e2.e # "Ok" THEN CFail(r.tc, e2)
                                        ELSE COk(r.tc, TyInfo(Named("bool"), od, esc))))))))

\* the parameter loop of check_func: [err, tc]
RECURSIVE insert_params(_, _, _, _)
insert_params(c, params, i, depth) ==
    IF i > Len(params) THEN COk(c, NoInfo)
    ELSE Bind(resolve_type(c, params[i].ty), LAMBDA ty :
            IF ty.err.e # "Ok" THEN CFail(c, ty.err)
            ELSE insert_params(insert_var(c, params[i].name, ty.ty, params[i].mutable,
                                          depth),
                               params, i + 1, depth))

\* a check_func that does not record the inferred return type
set_ret_skip(c, name, ty) == c

\* check_func: "update function signature with inferred return for downstream calls"
set_ret(c, name, ty) ==
    IF name \in DOMAIN c.funcs THEN [c EXCEPT !.funcs[name].ret = Some(ty)] ELSE c

\* the closure of check_func, run between push_scope and pop_scope
check_func_body(c, func, sig) ==
    Bind(current_depth(c), LAMBDA depth :
        Bind(insert_params(c, sig.params, 1, depth), LAMBDA p :
       IF ~IsOk(p) THEN p
       ELSE Bind(    IF func.body.k = "Block" THEN check_block(p.tc, func.body, TRUE)
                     ELSE check_expr(p.tc, func.body, "Move"), LAMBDA b :
               IF ~IsOk(b) THEN b
               ELSE Bind(ensure_not_escape(b.info, depth), LAMBDA e1 :
                        Bind( EscLogged(b.tc, EscEvent(b.tc, "func", func.body, b.info, depth,
                                                       TRUE, e1.e)), LAMBDA c1 :
                       IF e1.e # "Ok" THEN CFail(c1, e1)
                       ELSE Bind(     IF Len(sig.ret) = 1
                                      THEN ensure_type(c1, sig.ret[1], b.info.ty)
                                      ELSE OkE, LAMBDA e2 :
                                Bind(           IF Len(sig.ret) = 1 THEN sig.ret[1]
                                                ELSE b.info.ty, LAMBDA inferred_ret :
                               IF e2.e # "Ok" THEN CFail(c1, e2)
                               ELSE COk(set_ret(c1, func.name, inferred_ret), NoInfo))))))))

\* a check_func that examines main like any other function
main_params_ignored(func) == FALSE

\* check_func: the test on the name and the parameter list
main_has_params(func) == func.name = "main" /\ Len(func.params) # 0

check_func(c, func) ==
    IF main_has_params(func)
    THEN CFail(c, Err("MainHasParams", << >>))
    ELSE IF func.name \notin DOMAIN c.funcs
    THEN CFail(c, Err("UnknownFunc", <<func.name>>))
    ELSE Bind(check_func_body(push_scope(c), func, c.funcs[func.name]), LAMBDA r :
            [r EXCEPT !.tc = pop_scope(@)])

(***************************************************************************)
(* runtime/src/arena.rs: the bump arena.  buf is represented by its length *)
(* (the bytes are never read by the code modelled here); a region          *)
(* `&mut buf[start..end]` by its bounds.                                   *)
(***************************************************************************)
with_capacity(cap) == [buf_len |-> cap, off |-> 0]

capacity(a) == a.buf_len

\* usize::saturating_sub
remaining(a) == IF a.buf_len >= a.off THEN a.buf_len - a.off ELSE 0

OutOfCapacity(requested, rem) ==
    [e |-> "OutOfCapacity", requested |-> requested, remaining |-> rem]

NoRegion == [start |-> 0, end |-> 0]

\* an alloc that hands out the region without advancing the offset
alloc_no_bump(a, size) ==
    IF size > remaining(a)
    THEN [err |-> OutOfCapacity(size, remaining(a)), arena |-> a, region |-> NoRegion]
    ELSE [err |-> OkE, arena |-> a, region |-> [start |-> a.off, end |-> a.off + size]]

\* Result<&mut [u8], ArenaError> as [err, arena, region], arena being the
\* object after the call
alloc(a, size) ==
    IF size > remaining(a)
    THEN [err |-> OutOfCapacity(size, remaining(a)), arena |-> a, region |-> NoRegion]
    ELSE [err |-> OkE, arena |-> [a EXCEPT !.off = a.off + size],
          region |-> [start |-> a.off, end |-> a.off + size]]

reset(a) == [a EXCEPT !.off = 0]

(***************************************************************************)
(* interp/src/lib.rs: values, bindings, environment                        *)
(***************************************************************************)
VInt(i) == [k |-> "Int", i |-> i]

VBool(b) == [k |-> "Bool", b |-> b]

VStr(s) == [k |-> "Str", s |-> s]

\* IndexMap<String, Value>: an insertion-ordered sequence of entries with distinct names
VRecord(m) == [k |-> "Record", m |-> m]

VUnit == [k |-> "Unit"]

RBinding(mutable, value) == [mutable |-> mutable, value |-> value]

RuntimeErrors == {"UnknownIdent", "Moved", "NotMutable", "FieldNotFound", "Type"}

\* outcomes that end the process instead of returning a RuntimeError: an
\* arithmetic panic, and exhaustion of the native stack by unbounded recursion
Aborts == {"Panic", "StackOverflow"}

\* bound of the model on the nesting of call_function (the native stack)
MaxCallDepth == 4

\* Interpreter::new(1024 * 1024), as the command line and the tests create it
ArenaCap == 1048576

\* Env::new_with_arena; `calls`, `log` and `out` are ghost fields: the current
\* nesting of call_function, the binding events, and the text written to stdout
EnvNew ==
    [scopes |-> << >>, arena |-> with_capacity(ArenaCap), calls |-> 0, log |-> << >>,
     out |-> << >>]

EOk(env, val) == [err |-> OkE, env |-> env, val |-> val]

EFail(env, e) == [err |-> e, env |-> env, val |-> VUnit]

env_push_scope(env) == [env EXCEPT !.scopes = Append(@, EmptyMap)]

env_pop_scope(env) ==
    [env EXCEPT !.scopes = IF Len(@) = 0 THEN @ ELSE SubSeq(@, 1, Len(@) - 1),
                !.arena = reset(@)]

init_globals(env, globals) == [env EXCEPT !.scopes = Append(@, globals)]

insert_binding(env, name, binding) ==
    Logged(IF Len(env.scopes) = 0
           THEN [env EXCEPT !.scopes = <<Put(EmptyMap, name, binding)>>]
           ELSE [env EXCEPT !.scopes[Len(env.scopes)] = Put(@, name, binding)],
           Event("decl", "-", name, IF Len(env.scopes) = 0 THEN 0 ELSE Len(env.scopes) - 1,
                 "Ok"))

\* position of `field` in the entries of a record, 0 when absent
FieldIndex(m, field) ==
    Bind({j \in 1..Len(m) : m[j].name = field}, LAMBDA S :
       IF S = {} THEN 0 ELSE CHOOSE j \in S : TRUE)

\* Result<Value, RuntimeError> as [err, val]
extract_field(val, field) ==
    IF val.k = "Record"
    THEN Bind(FieldIndex(val.m, field), LAMBDA j :
            IF j = 0 THEN [err |-> Err("FieldNotFound", <<field>>), val |-> VUnit]
            ELSE [err |-> OkE, val |-> val.m[j].v])
    ELSE [err |-> Err("Type", <<"field access on non-record">>), val |-> VUnit]

RECURSIVE extract_fields(_, _, _)
extract_fields(val, rest, i) ==
    IF i > Len(rest) THEN [err |-> OkE, val |-> val]
    ELSE Bind(extract_field(val, rest[i]), LAMBDA r :
            IF r.err.e # "Ok" THEN r ELSE extract_fields(r.val, rest, i + 1))

\* Result<(), RuntimeError> with the updated target: [err, val]
RECURSIVE set_field(_, _, _)
set_field(target, path, value) ==
    IF Len(path) = 0 THEN [err |-> OkE, val |-> value]
    ELSE IF target.k = "Record"
    THEN Bind(FieldIndex(target.m, path[1]), LAMBDA j :
            IF j = 0 THEN [err |-> Err("FieldNotFound", <<path[1]>>), val |-> target]
            ELSE IF Len(path) = 1
            THEN [err |-> OkE, val |-> [target EXCEPT !.m[j].v = value]]
            ELSE Bind(set_field(target.m[j].v, Tail(path), value), LAMBDA r :
                    [err |-> r.err, val |-> [target EXCEPT !.m[j].v = r.val]]))
    ELSE [err |-> Err("Type", <<"assignment into non-record field">>), val |-> target]

resolve_path(env, path, mode) ==
    IF Len(path) = 0 THEN EFail(env, Err("UnknownIdent", <<"">>))
    ELSE Bind(path[1], LAMBDA head :
             Bind(FindScope(env.scopes, head), LAMBDA s :
            IF s = 0 THEN EFail(env, Err("UnknownIdent", <<head>>))
            ELSE Bind(env.scopes[s][head], LAMBDA binding :
                    IF Len(binding.value) = 0
                    THEN EFail(Logged(env, ReadEvent(mode, path, s - 1, "Moved")),
                               Err("Moved", <<head>>))
                    ELSE Bind(       Logged(IF mode = "Move"
                                            THEN [env EXCEPT !.scopes[s][head].value = None]
                                            ELSE env,
                                            ReadEvent(mode, path, s - 1, "Ok")), LAMBDA env1 :
                             Bind(extract_fields(binding.value[1], Tail(path), 1), LAMBDA r :
                            IF r.err.e # "Ok" THEN EFail(env1, r.err)
                            ELSE EOk(env1, r.val))))))

\* Result<(), RuntimeError> with the environment after the call: [err, env, val]
assign_path(env, path, value) ==
    IF Len(path) = 0 THEN EFail(env, Err("UnknownIdent", <<"">>))
    ELSE Bind(path[1], LAMBDA head :
             Bind(FindScope(env.scopes, head), LAMBDA s :
            IF s = 0 THEN EFail(env, Err("UnknownIdent", <<head>>))
            ELSE Bind(env.scopes[s][head], LAMBDA binding :
                    IF ~binding.mutable THEN EFail(env, Err("NotMutable", <<head>>))
                    ELSE IF Len(binding.value) = 0
                    THEN EFail(Logged(env, Event("assign", "-", head, s - 1, "Moved")),
                               Err("Moved", <<head>>))
                    ELSE Bind(set_field(binding.value[1], Tail(path), value), LAMBDA r :
                            IF r.err.e # "Ok" THEN EFail(env, r.err)
                            ELSE EOk(Logged([env EXCEPT !.scopes[s][head].value =
                                                           Some(r.val)],
                                            Event("assign", "-", head, s - 1, "Ok")),
                                     VUnit)))))

(***************************************************************************)
(* interp/src/lib.rs: evaluation                                           *)
(***************************************************************************)
\* Value::Int arithmetic: the integer literals of the program families are
\* small, so no sum, difference or product leaves the i64 range
IntResult(n) == [err |-> OkE, val |-> VInt(n)]

\* Rust integer division truncates toward zero
TruncDiv(a, b) ==
    Bind((IF a < 0 THEN -a ELSE a) \div (IF b < 0 THEN -b ELSE b), LAMBDA q :
       IF (a < 0) = (b < 0) THEN q ELSE -q)

TypeErr(msg) == [err |-> Err("Type", <<msg>>), val |-> VUnit]

\* Result<Value, RuntimeError> as [err, val]
eval_binary(l, r, op) ==
    CASE op = "Add" ->
           IF l.k = "Int" /\ r.k = "Int" THEN IntResult(l.i + r.i)
           ELSE IF l.k = "Str" /\ r.k = "Str" THEN [err |-> OkE, val |-> VStr(l.s \o r.s)]
           ELSE TypeErr("invalid operands for +")
      [] op = "Sub" ->
           IF l.k = "Int" /\ r.k = "Int" THEN IntResult(l.i - r.i)
           ELSE TypeErr("invalid operands for -")
      [] op = "Mul" ->
           IF l.k = "Int" /\ r.k = "Int" THEN IntResult(l.i * r.i)
           ELSE TypeErr("invalid operands for *")
      [] op = "Div" ->
           IF l.k = "Int" /\ r.k = "Int"
           THEN IF r.i = 0
                THEN [err |-> Err("Panic", <<"attempt to divide by zero">>), val |-> VUnit]
                ELSE IntResult(TruncDiv(l.i, r.i))
           ELSE TypeErr("invalid operands for /")
      [] op = "Lt" ->
           IF l.k = "Int" /\ r.k = "Int" THEN [err |-> OkE, val |-> VBool(l.i < r.i)]
           ELSE TypeErr("invalid operands for <")
      [] op = "Eq" -> [err |-> OkE, val |-> VBool(l.k = r.k /\ l = r)]
      [] op = "And" ->
           IF l.k = "Bool" /\ r.k = "Bool" THEN [err |-> OkE, val |-> VBool(l.b /\ r.b)]
           ELSE TypeErr("invalid operands for &&")
      [] op = "Or" ->
           IF l.k = "Bool" /\ r.k = "Bool" THEN [err |-> OkE, val |-> VBool(l.b \/ r.b)]
           ELSE TypeErr("invalid operands for ||")

\* format!("{other:?}") of a value that is not a string
RECURSIVE DebugFmt(_)
RECURSIVE DebugEntries(_, _)
DebugEntries(m, i) ==
    IF i > Len(m) THEN ""
    ELSE "\"" \o m[i].name \o "\": " \o DebugFmt(m[i].v)
         \o (IF i < Len(m) THEN ", " ELSE "") \o DebugEntries(m, i + 1)

DebugFmt(v) ==
    CASE v.k = "Int" -> "Int(" \o ToString(v.i) \o ")"
      [] v.k = "Bool" -> IF v.b THEN "Bool(true)" ELSE "Bool(false)"
      [] v.k = "Str" -> "Str(\"" \o v.s \o "\")"
      [] v.k = "Unit" -> "Unit"
      [] v.k = "Record" -> "Record({" \o DebugEntries(v.m, 1) \o "})"

literal_value(lit) ==
    CASE lit.k = "Int" -> VInt(lit.i)
      [] lit.k = "Bool" -> VBool(lit.b)
      [] lit.k = "Str" -> VStr(lit.s)
      [] lit.k = "Unit" -> VUnit

\* IndexMap::insert: an existing key keeps its position and takes the new value
IndexMapInsert(m, name, v) ==
    Bind(FieldIndex(m, name), LAMBDA j :
       IF j = 0 THEN Append(m, [name |-> name, v |-> v]) ELSE [m EXCEPT ![j].v = v])

RECURSIVE eval_expr(_, _, _, _)
RECURSIVE eval_block(_, _, _)
RECURSIVE eval_stmts(_, _, _, _)
RECURSIVE eval_args(_, _, _, _, _)
RECURSIVE eval_fields(_, _, _, _, _)
RECURSIVE call_function(_, _, _, _)

eval_stmt(it, stmt, env) ==
    CASE stmt.k = "Binding" ->
           Bind(eval_expr(it, stmt.value, env, "Move"), LAMBDA v :
              IF ~IsOk(v) THEN v
              ELSE EOk(insert_binding(v.env, stmt.name,
                                      RBinding(stmt.mutable, Some(v.val))), VUnit))
      [] stmt.k = "Assign" ->
           Bind(eval_expr(it, stmt.value, env, "Move"), LAMBDA v :
              IF ~IsOk(v) THEN v ELSE assign_path(v.env, stmt.target, v.val))
      [] stmt.k = "Expr" ->
           Bind(eval_expr(it, stmt.e, env, "Move"), LAMBDA v :
              IF ~IsOk(v) THEN v ELSE EOk(v.env, VUnit))

eval_stmts(it, stmts, i, env) ==
    IF i > Len(stmts) THEN EOk(env, VUnit)
    ELSE Bind(eval_stmt(it, stmts[i], env), LAMBDA r :
            IF ~IsOk(r) THEN r ELSE eval_stmts(it, stmts, i + 1, r.env))

eval_block(it, block, env) ==
    Bind(eval_stmts(it, block.stmts, 1, env_push_scope(env)), LAMBDA s :
       IF ~IsOk(s) THEN s
       ELSE IF Len(block.tail) = 0 THEN EOk(env_pop_scope(s.env), VUnit)
       ELSE Bind(eval_expr(it, block.tail[1], s.env, "Move"), LAMBDA t :
               IF ~IsOk(t) THEN t ELSE EOk(env_pop_scope(t.env), t.val)))

\* the argument loop of Expr::FuncCall: [err, env, val] with val the list of values
eval_args(it, args, i, env, out) ==
    IF i > Len(args) THEN EOk(env, out)
    ELSE Bind(eval_expr(it, args[i], env, "Move"), LAMBDA a :
            IF ~IsOk(a) THEN a
            ELSE eval_args(it, args, i + 1, a.env, Append(out, a.val)))

\* a parameter loop that pairs the parameters with the arguments in reverse
RECURSIVE bind_params_reversed(_, _, _, _)
bind_params_reversed(env, params, args, i) ==
    IF i > Len(params) THEN env
    ELSE bind_params_reversed(insert_binding(env, params[i].name,
                                             RBinding(params[i].mutable,
                                                      Some(args[Len(args) + 1 - i]))),
                              params, args, i + 1)

\* the parameter loop of call_function
RECURSIVE bind_params(_, _, _, _)
bind_params(env, params, args, i) ==
    IF i > Len(params) THEN env
    ELSE bind_params(insert_binding(env, params[i].name,
                                    RBinding(params[i].mutable, Some(args[i]))),
                     params, args, i + 1)

call_function(it, func, args, env) ==
    IF Len(func.params) # Len(args) THEN EFail(env, Err("Type", <<"arity mismatch">>))
    ELSE IF env.calls >= MaxCallDepth
    THEN EFail(env, Err("StackOverflow", << >>))
    ELSE Bind(       bind_params([env_push_scope(env) EXCEPT !.calls = @ + 1],
                                 func.params, args, 1), LAMBDA env1 :
             Bind(IF func.body.k = "Block" THEN eval_block(it, func.body, env1)
                  ELSE eval_expr(it, func.body, env1, "Move"), LAMBDA r :
            IF ~IsOk(r) THEN r
            ELSE EOk([env_pop_scope(r.env) EXCEPT !.calls = @ - 1], r.val)))

\* an if that takes its then-branch whatever the condition
if_branch_then(ife, b) == ife.then_branch

\* Expr::If: the branch the value of the condition selects
if_branch(ife, b) == IF b THEN ife.then_branch ELSE ife.else_branch

\* a print that returns its string without writing it
eval_builtin_silent(name, args, it, env) ==
    IF name \in {<<"print">>, <<"println">>}
    THEN IF Len(args) # 1
         THEN EFail(env, Err("Type", <<"print/println expects one argument">>))
         ELSE Bind(eval_expr(it, args[1], env, "Move"), LAMBDA v :
                 IF ~IsOk(v) THEN v
                 ELSE Bind(IF v.val.k = "Str" THEN v.val.s ELSE DebugFmt(v.val), LAMBDA s :
                         EOk(v.env, Some(VStr(s)))))
    ELSE EOk(env, None)

\* Result<Option<Value>, RuntimeError>: val is None or Some(value)
eval_builtin(name, args, it, env) ==
    IF name \in {<<"print">>, <<"println">>}
    THEN IF Len(args) # 1
         THEN EFail(env, Err("Type", <<"print/println expects one argument">>))
         ELSE Bind(eval_expr(it, args[1], env, "Move"), LAMBDA v :
                 IF ~IsOk(v) THEN v
                 ELSE Bind(IF v.val.k = "Str" THEN v.val.s ELSE DebugFmt(v.val), LAMBDA s :
                         EOk([v.env EXCEPT !.out = Append(@, [fn |-> name, s |-> s])],
                             Some(VStr(s)))))
    ELSE EOk(env, None)

\* the field loop of Expr::RecordLit
eval_fields(it, fields, i, env, map) ==
    IF i > Len(fields) THEN EOk(env, VRecord(map))
    ELSE Bind(eval_expr(it, fields[i].value, env, "Move"), LAMBDA v :
            IF ~IsOk(v) THEN v
            ELSE eval_fields(it, fields, i + 1, v.env,
                             IndexMapInsert(map, fields[i].name, v.val)))

eval_expr(it, expr, env, mode) ==
    CASE expr.k = "Literal" -> EOk(env, literal_value(expr.lit))
      [] expr.k = "Path" -> resolve_path(env, expr.p, mode)
      [] expr.k = "Copy" -> eval_expr(it, expr.inner, env, "Copy")
      [] expr.k = "Ref" -> eval_expr(it, expr.inner, env, "Borrow")
      [] expr.k = "FuncCall" ->
           IF Len(expr.callee) = 1 /\ expr.callee[1] \in DOMAIN it.funcs
           THEN Bind(eval_args(it, expr.args, 1, env, << >>), LAMBDA a :
                   IF ~IsOk(a) THEN a
                   ELSE call_function(it, it.funcs[expr.callee[1]], a.val, a.env))
           ELSE Bind(eval_builtin(path_to_string(expr.callee), expr.args, it, env), LAMBDA b :
                   IF ~IsOk(b) THEN b
                   ELSE IF Len(b.val) = 1 THEN EOk(b.env, b.val[1])
                   ELSE EFail(b.env, Err("UnknownIdent", path_to_string(expr.callee))))
      [] expr.k = "If" ->
           Bind(eval_expr(it, expr.cond, env, "Move"), LAMBDA c :
              IF ~IsOk(c) THEN c
              ELSE IF c.val.k = "Bool"
              THEN eval_expr(it, if_branch(expr, c.val.b), c.env, "Move")
              ELSE EFail(c.env, Err("Type", <<"if condition must be bool">>)))
      [] expr.k = "Block" -> eval_block(it, expr, env)
      [] expr.k = "RecordLit" -> eval_fields(it, expr.fields, 1, env, << >>)
      [] expr.k = "Unary" ->
           Bind(eval_expr(it, expr.expr, env, "Move"), LAMBDA v :
              IF ~IsOk(v) THEN v
              ELSE IF expr.op = "Neg" /\ v.val.k = "Int"
              THEN Bind(IntResult(-v.val.i), LAMBDA n :
                      IF n.err.e # "Ok" THEN EFail(v.env, n.err) ELSE EOk(v.env, n.val))
              ELSE IF expr.op = "Not" /\ v.val.k = "Bool"
              THEN EOk(v.env, VBool(~v.val.b))
              ELSE EFail(v.env, Err("Type", <<"invalid unary operand">>)))
      [] expr.k = "Binary" ->
           Bind(eval_expr(it, expr.left, env, "Move"), LAMBDA l :
              IF ~IsOk(l) THEN l
              ELSE Bind(eval_expr(it, expr.right, l.env, "Move"), LAMBDA r :
                      IF ~IsOk(r) THEN r
                      ELSE Bind(eval_binary(l.val, r.val, expr.op), LAMBDA b :
                              IF b.err.e # "Ok" THEN EFail(r.env, b.err)
                              ELSE EOk(r.env, b.val))))

(***************************************************************************)
(* interp/src/lib.rs: Interpreter::new, load_program, run_main             *)
(***************************************************************************)
InterpreterNew == [globals |-> EmptyMap, funcs |-> EmptyMap]

\* the first loop of load_program
RECURSIVE collect_funcs(_, _, _)
collect_funcs(funcs, decls, i) ==
    IF i > Len(decls) THEN funcs
    ELSE collect_funcs(IF decls[i].k = "Func" THEN Put(funcs, decls[i].name, decls[i])
                       ELSE funcs,
                       decls, i + 1)

\* the second loop of load_program: [err, it]; every initializer is evaluated
\* in an environment of its own
RECURSIVE load_globals(_, _, _)
load_globals(it, decls, i) ==
    IF i > Len(decls) THEN [err |-> OkE, it |-> it]
    ELSE IF decls[i].k \in {"Global", "Let"}
    THEN Bind(eval_expr(it, decls[i].b.value, EnvNew, "Move"), LAMBDA v :
            IF ~IsOk(v) THEN [err |-> v.err, it |-> it]
            ELSE load_globals([it EXCEPT !.globals =
                                  Put(@, decls[i].b.name,
                                      RBinding(decls[i].b.mutable, Some(v.val)))],
                              decls, i + 1))
    ELSE load_globals(it, decls, i + 1)

load_program(it, program) ==
    load_globals([it EXCEPT !.funcs = collect_funcs(@, program, 1)], program, 1)

\* a run_main that runs main on the stored globals and keeps what the run left
run_main_in_place(it) ==
    IF "main" \notin DOMAIN it.funcs
    THEN [err |-> Err("UnknownIdent", <<"main">>), env |-> EnvNew, val |-> VUnit,
          it |-> it, start |-> << >>]
    ELSE Bind(init_globals(EnvNew, it.globals), LAMBDA env0 :
            Bind(call_function(it, it.funcs["main"], << >>, env0), LAMBDA r :
               [err |-> r.err, env |-> r.env, val |-> r.val,
                it |-> [it EXCEPT !.globals = r.env.scopes[1]],
                start |-> env0.scopes]))

\* [err, env, val, it, start]: `it` is the interpreter after the call (run_main
\* takes &mut self and writes none of its fields); `start` is ghost, the scope
\* stack main was called with
run_main(it) ==
    IF "main" \notin DOMAIN it.funcs
    THEN [err |-> Err("UnknownIdent", <<"main">>), env |-> EnvNew, val |-> VUnit,
          it |-> it, start |-> << >>]
    ELSE Bind(init_globals(EnvNew, it.globals), LAMBDA env0 :
            Bind(call_function(it, it.funcs["main"], << >>, env0), LAMBDA r :
               [err |-> r.err, env |-> r.env, val |-> r.val, it |-> it,
                start |-> env0.scopes]))

(***************************************************************************)
(* typecheck.rs: check_program, pass 1                                     *)
(***************************************************************************)
RECURSIVE collect_decls(_, _, _)
collect_decls(c, decls, i) ==
    IF i > Len(decls) THEN c
    ELSE collect_decls(
           CASE decls[i].k = "Type" ->
                  [c EXCEPT !.types = Put(@, decls[i].name, decls[i].ty)]
             [] decls[i].k = "Func" ->
                  [c EXCEPT !.funcs = Put(@, decls[i].name,
                                          FuncSig(decls[i].params, decls[i].ret))]
             [] OTHER -> c,
           decls, i + 1)

(***************************************************************************)
(* cgen/src/lib.rs: TypeCtx, resolve_alias, generate_c.  The C text is     *)
(* kept in outline: the sequence of top-level items generate_c writes.     *)
(***************************************************************************)
CgBuiltinTypeNames == {"i32", "i64", "u8", "bool", "Str", "Bytes", "Unit"}

CgBuiltinFuncNames == <<"print", "println", "read_file", "write_file", "args">>

\* TypeCtx::new: the loop that inserts the type declarations
RECURSIVE cg_types(_, _, _)
cg_types(types, decls, i) ==
    IF i > Len(decls) THEN types
    ELSE cg_types(IF decls[i].k = "Type" THEN Put(types, decls[i].name, decls[i].ty)
                  ELSE types,
                  decls, i + 1)

TypeCtxNew(program) ==
    [types |-> cg_types([n \in CgBuiltinTypeNames |-> Named(n)], program, 1)]

\* the loop of TypeCtx::resolve_alias from `current` with the names `seen`; the
\* Ref case calls resolve_alias again, with an empty set of seen names
RECURSIVE resolve_alias_from(_, _, _, _)
resolve_alias_from(ctx, current, seen, depth) ==
    CASE current.k = "Named" ->
           IF current.n \in seen THEN current
           ELSE IF current.n \in DOMAIN ctx.types
           THEN resolve_alias_from(ctx, ctx.types[current.n], seen \cup {current.n}, depth)
           ELSE current
      [] current.k = "Ref" ->
           IF depth >= MaxResolveDepth THEN Overflow
           ELSE Bind(resolve_alias_from(ctx, current.t, {}, depth + 1), LAMBDA inner :
                   IF inner = Overflow THEN Overflow ELSE RefT(inner))
      [] current.k = "Record" -> current

resolve_alias(ctx, ty) == resolve_alias_from(ctx, ty, {}, 0)

is_unit(ctx, ty) == resolve_alias(ctx, ty) = Named("Unit")

\* emit_function, emit_block: a body block without tail expression under a declared
\* return type that is not Unit (an undeclared one is inferred as Unit by
\* infer_block_type); the built-in names are emitted without their body
missing_return(ctx, func) ==
    /\ \A i \in 1..Len(CgBuiltinFuncNames) : func.name # CgBuiltinFuncNames[i]
    /\ func.body.k = "Block"
    /\ Len(func.body.tail) = 0
    /\ Len(func.ret) = 1
    /\ ~is_unit(ctx, func.ret[1])

\* emit_builtin_shims: one shim per built-in name the program does not declare
emit_builtin_shims(func_names) ==
    SelectSeq([i \in 1..Len(CgBuiltinFuncNames) |-> <<"shim", CgBuiltinFuncNames[i]>>],
              LAMBDA it : it[2] \notin func_names)

\* the items of one kind, in declaration order
emit_decls(program, kinds, tag) ==
    Bind(SelectSeq(program, LAMBDA d : d.k \in kinds), LAMBDA ds :
       [i \in 1..Len(ds) |-> <<tag, IF ds[i].k \in {"Global", "Let"} THEN ds[i].b.name
                                    ELSE ds[i].name>>])

\* Result<String, CgenError> as [err, out]
generate_c(program) ==
    Bind(TypeCtxNew(program), LAMBDA ctx :
       IF \E i \in 1..Len(program) :
             program[i].k = "Type" /\ resolve_alias(ctx, program[i].ty) = Overflow
       THEN [err |-> Err("StackOverflow", << >>), out |-> << >>]
       ELSE IF \E i \in 1..Len(program) :
                  program[i].k = "Func" /\ missing_return(ctx, program[i])
       THEN [err |-> Err("Unsupported", <<"missing return expression">>), out |-> << >>]
       ELSE [err |-> OkE,
             out |-> emit_builtin_shims({program[i].name :
                                            i \in {j \in 1..Len(program) :
                                                      program[j].k = "Func"}})
                     \o emit_decls(program, {"Type"}, "typedef")
                     \o emit_decls(program, {"Global", "Let"}, "global")
                     \o emit_decls(program, {"Func"}, "func")])

(***************************************************************************)
(* cli/src/main.rs                                                         *)
(***************************************************************************)
\* print(msg: Str) -> Str = msg
PrintDecl(name) ==
    FuncD(name, <<Param(FALSE, "msg", Named("Str"))>>, Some(Named("Str")),
          PathE(<<"msg">>))

append_builtin_prints(decls) ==
    Bind({decls[i].name : i \in {j \in 1..Len(decls) : decls[j].k = "Func"}},
         LAMBDA names :
            decls \o (IF "print" \in names THEN << >> ELSE <<PrintDecl("print")>>)
                  \o (IF "println" \in names THEN << >> ELSE <<PrintDecl("println")>>))

\* a command line that goes on whatever check_program returned
check_gate_open(m, res) == TRUE

\* run_interpreter, emit_and_maybe_build: the `?` on the result of check_program;
\* a caller of the libraries has no such test
check_gate(m, res) == m = "lib" \/ res.e = "Ok"

(***************************************************************************)
(* Program families (the inputs).  Bounds of the model.                    *)
(***************************************************************************)
\* statements of main after its first binding, in the ownership family
MaxStmts == 2

\* run_main calls on one loaded interpreter
MaxRuns == 2

I32 == Named("i32")

X == PathE(<<"x">>)

SeqsUpTo(S, n) == UNION {[1..m -> S] : m \in 0..n}

\* global mut g: i32 = 7
\* id(a: i32) -> i32 = a
\* take() -> i32 = g
OwnPrelude ==
    <<GlobalD(TRUE, "g", I32, LitInt(7)),
      FuncD("id", <<Param(FALSE, "a", I32)>>, Some(I32), PathE(<<"a">>)),
      FuncD("take", << >>, Some(I32), PathE(<<"g">>))>>

OwnStmts ==
    {BindingS(TRUE, "x", I32, LitInt(1)),
     BindingS(FALSE, "y", I32, X),
     BindingS(FALSE, "y", I32, CopyE(X)),
     BindingS(FALSE, "r", RefT(I32), RefE(X)),
     AssignS(<<"x">>, LitInt(2)),
     AssignS(<<"x">>, Binary(X, "Add", LitInt(1))),
     ExprS(FuncCall("id", <<X>>)),
     ExprS(FuncCall("id", <<CopyE(X)>>)),
     ExprS(IfE(LitBool(FALSE), X, LitInt(0))),
     ExprS(BlockE(<<BindingS(FALSE, "x", I32, LitInt(3))>>, Some(X))),
     ExprS(BlockE(<< >>, Some(X))),
     ExprS(FuncCall("take", << >>)),
     ExprS(PathE(<<"g">>))}

OwnTails == {None, Some(X)}

\* main() = { mut x: i32 = 1  <stmts>  <tail> }
OwnPrograms ==
    {OwnPrelude \o <<FuncD("main", << >>, None,
                           BlockE(<<BindingS(TRUE, "x", I32, LitInt(1))>> \o ss, t))>> :
       ss \in SeqsUpTo(OwnStmts, MaxStmts), t \in OwnTails}

(***************************************************************************)
(* The state machine.  tc is the TypeChecker running check_program on      *)
(* prog, cpc its position; interp is the Interpreter, ipc its position.    *)
(* passes (the passes of the worklist started so far), fres (one entry per *)
(* check_func call: the function, the pass, the result, the signature      *)
(* table before and after it, the height of the scope stack before (h0)    *)
(* and after (h1) it, the global scope before (g0) and after (g1) it, and  *)
(* whether the call left the checker as it was) and                        *)
(* rlog (the binding events of the last run_main) are ghost variables;     *)
(* rout is what the last run_main wrote to the standard output; rhist has  *)
(* one entry per run_main call: its result, the scope stack main started   *)
(* with, and the interpreter before and after the call.                    *)
(* The two objects share no state, so the order of their steps does not    *)
(* matter: the interpreter's steps are taken after check_program returned, *)
(* whatever it returned.                                                   *)
(***************************************************************************)
Running == [e |-> "Running", a |-> << >>]

NoRes == [err |-> Running, val |-> VUnit]

NotCalled == [err |-> Running, out |-> << >>]

\* ghost: the regions handed out since the last reset, and the last call with
\* the arena before it and what it returned
NoOps ==
    [regions |-> << >>,
     last |-> [op |-> "none", n |-> 0, before |-> with_capacity(0), err |-> OkE,
               region |-> NoRegion]]

\* the checker and the interpreter before the first call, for a program of P
\* driven in a mode of M
ProgramState(P, M) ==
    /\ prog \in P
    /\ cmode \in M
    /\ gres = NotCalled
    /\ tc = TypeCheckerNew
    /\ cpc = "pass1"
    /\ gi = 1
    /\ funcs_to_check = << >>
    /\ pending = << >>
    /\ queue = << >>
    /\ deferred = << >>
    /\ progressed = FALSE
    /\ cres = Running
    /\ passes = 0
    /\ fres = << >>
    /\ interp = InterpreterNew
    /\ ipc = "new"
    /\ lres = Running
    /\ rres = NoRes
    /\ rlog = << >>
    /\ rout = << >>
    /\ rhist = << >>
    /\ runs = 0

\* the state before the first call; the free-standing arena is not used
InitState(P, M) ==
    /\ ProgramState(P, M)
    /\ arena = with_capacity(0)
    /\ ahist = NoOps

\* the libraries called directly, as the tests of the crates do
InitWith(P) == InitState(P, {"lib"})

interpVars == <<interp, ipc, lres, rres, rlog, rout, rhist, runs>>

\* cap of the pass counter of the worklist (never reached: see C10)
MaxPasses == 6

\* check_program, pass 1 and the push of the global scope
Pass1 ==
    /\ cpc = "pass1"
    /\ tc' = push_scope(collect_decls(tc, prog, 1))
    /\ cpc' = "decls"
    /\ UNCHANGED <<prog, cmode, arena, ahist, gi, funcs_to_check, pending, queue, deferred, progressed,
                   cres, passes, fres, interpVars, gres>>

\* check_program, one iteration of the loop over the declarations
CheckDecl ==
    /\ cpc = "decls"
    /\ gi <= Len(prog)
    /\ Bind(prog[gi], LAMBDA decl :
          CASE decl.k = "Func" ->
                 /\ funcs_to_check' = Append(funcs_to_check, decl)
                 /\ gi' = gi + 1
                 /\ UNCHANGED <<tc, cpc, cres>>
            [] decl.k \in {"Global", "Let"} ->
                 Bind(check_binding(tc, decl.b, 0), LAMBDA r :
                    /\ tc' = r.tc
                    /\ gi' = gi + 1
                    /\ cres' = IF IsOk(r) THEN cres ELSE r.err
                    /\ cpc' = IF IsOk(r) THEN cpc ELSE "done"
                    /\ UNCHANGED funcs_to_check)
            [] OTHER ->
                 /\ gi' = gi + 1
                 /\ UNCHANGED <<tc, cpc, cres, funcs_to_check>>)
    /\ UNCHANGED <<prog, cmode, arena, ahist, pending, queue, deferred, progressed, passes, fres, interpVars, gres>>

\* check_program: the declarations are done, the worklist starts
StartWorklist ==
    /\ cpc = "decls"
    /\ gi > Len(prog)
    /\ pending' = funcs_to_check
    /\ cpc' = "while"
    /\ UNCHANGED <<prog, cmode, arena, ahist, tc, gi, funcs_to_check, queue, deferred, progressed, cres,
                   passes, fres, interpVars, gres>>

\* check_program: the test of `while !pending.is_empty()` and the start of a pass
WhileTest ==
    /\ cpc = "while"
    /\ passes < MaxPasses
    /\ IF pending = << >>
       THEN /\ cres' = OkE
            /\ cpc' = "done"
            /\ UNCHANGED <<queue, deferred, progressed, passes>>
       ELSE /\ queue' = pending
            /\ deferred' = << >>
            /\ progressed' = FALSE
            /\ passes' = passes + 1
            /\ cpc' = "pass"
            /\ UNCHANGED cres
    /\ UNCHANGED <<prog, cmode, arena, ahist, tc, gi, funcs_to_check, pending, fres, interpVars, gres>>

\* check_program: one iteration of `for func in pending`
CheckFuncStep ==
    /\ cpc = "pass"
    /\ queue # << >>
    /\ Bind(Head(queue), LAMBDA func :
           Bind(check_func(tc, func), LAMBDA r :
          /\ tc' = r.tc
          /\ queue' = Tail(queue)
          /\ fres' = Append(fres, [name |-> func.name, pass |-> passes, err |-> r.err,
                                   before |-> tc.funcs, funcs |-> r.tc.funcs,
                                   h0 |-> Len(tc.scopes), h1 |-> Len(r.tc.scopes),
                                   g0 |-> tc.scopes[1], g1 |-> r.tc.scopes[1],
                                   untouched |-> r.tc = tc])
          /\ CASE r.err.e = "Ok" ->
                    /\ progressed' = TRUE
                    /\ UNCHANGED <<deferred, cres, cpc>>
               [] r.err.e = "UnknownFuncReturn" ->
                    /\ deferred' = Append(deferred, func)
                    /\ UNCHANGED <<progressed, cres, cpc>>
               [] OTHER ->
                    /\ cres' = r.err
                    /\ cpc' = "done"
                    /\ UNCHANGED <<progressed, deferred>>))
    /\ UNCHANGED <<prog, cmode, arena, ahist, gi, funcs_to_check, pending, passes, interpVars, gres>>

\* naming the last deferred function instead of the first
unresolved_name_last(dfd) == IF dfd = << >> THEN "<unknown>" ELSE dfd[Len(dfd)].name

\* a pass that keeps the whole pending list
next_pending_same(pend, dfd) == pend

\* the function named by the error of a pass without progress
unresolved_name(dfd) == IF dfd = << >> THEN "<unknown>" ELSE dfd[1].name

\* the pending list of the next pass
next_pending(pend, dfd) == dfd

\* check_program: the end of a pass
PassEnd ==
    /\ cpc = "pass"
    /\ queue = << >>
    /\ IF ~progressed
       THEN /\ cres' = Err("UnknownFuncReturn", <<unresolved_name(deferred)>>)
            /\ cpc' = "done"
            /\ UNCHANGED pending
       ELSE /\ pending' = next_pending(pending, deferred)
            /\ cpc' = "while"
            /\ UNCHANGED cres
    /\ UNCHANGED <<prog, cmode, arena, ahist, tc, gi, funcs_to_check, queue, deferred, progressed, passes,
                   fres, interpVars, gres>>

checkerVars == <<tc, cpc, gi, funcs_to_check, pending, queue, deferred, progressed,
                 cres, passes, fres>>

\* Interpreter::load_program
LoadProgram ==
    /\ cpc = "done"
    /\ cmode \in {"lib", "run"}
    /\ check_gate(cmode, cres)
    /\ ipc = "new"
    /\ Bind(load_program(interp, prog), LAMBDA r :
          /\ interp' = r.it
          /\ lres' = r.err
          /\ ipc' = IF r.err.e = "Ok" THEN "loaded" ELSE "failed")
    /\ UNCHANGED <<prog, cmode, arena, ahist, gres, checkerVars, rres, rlog, rout, rhist, runs>>

\* Interpreter::run_main
RunMain ==
    /\ ipc = "loaded"
    /\ runs < MaxRuns
    /\ cmode = "run" => runs = 0
    /\ Bind(run_main(interp), LAMBDA r :
          /\ interp' = r.it
          /\ rres' = [err |-> r.err, val |-> r.val]
          /\ rlog' = r.env.log
          /\ rout' = r.env.out
          /\ rhist' = Append(rhist, [err |-> r.err, val |-> r.val, start |-> r.start,
                                     before |-> interp, after |-> r.it]))
    /\ runs' = runs + 1
    /\ UNCHANGED <<prog, cmode, arena, ahist, gres, checkerVars, ipc, lres>>

\* cgen::generate_c
GenerateC ==
    /\ cpc = "done"
    /\ cmode \in {"lib", "emit"}
    /\ check_gate(cmode, cres)
    /\ gres = NotCalled
    /\ gres' = generate_c(prog)
    /\ UNCHANGED <<prog, cmode, arena, ahist, checkerVars, interpVars>>

Next ==
    \/ Pass1
    \/ CheckDecl
    \/ StartWorklist
    \/ WhileTest
    \/ CheckFuncStep
    \/ PassEnd
    \/ LoadProgram
    \/ RunMain
    \/ GenerateC

InitOwn == InitWith(OwnPrograms)

SpecOwn == InitOwn /\ [][Next]_vars

(***************************************************************************)
(* Properties of the binding-event logs                                    *)
(***************************************************************************)
\* two events concern the same binding: the same name in the same scope
SameBinding(a, b) == a.name = b.name /\ a.depth = b.depth

IsRead(ev, modes) == ev.ev = "read" /\ ev.mode \in modes

\* the binding of L[i] is re-declared or successfully assigned between i and j
Rebound(L, i, j) ==
    \E k \in (i + 1)..(j - 1) :
        L[k].ev \in {"decl", "assign"} /\ L[k].res = "Ok" /\ SameBinding(L[k], L[i])

\* L[j] follows a successful Move read of the same binding with no re-binding between
AfterMove(L, j) ==
    \E i \in 1..(j - 1) :
        IsRead(L[i], {"Move"}) /\ L[i].res = "Ok" /\ SameBinding(L[i], L[j])
        /\ ~Rebound(L, i, j)

HasMovedRead(L) == \E j \in 1..Len(L) : L[j].ev = "read" /\ L[j].res = "Moved"

MoveTwiceFails(L) ==
    \A j \in 1..Len(L) : IsRead(L[j], {"Move"}) /\ AfterMove(L, j) => L[j].res = "Moved"

\* C1: Move uniqueness.  A Move read of a binding that was Move-read before, with
\* no re-declaration of and no assignment to it in between, fails with a
\* moved-value error: in the checker (check_program returns TypeError::Moved) and
\* in the evaluator (run_main returns RuntimeError::Moved).
C1_MoveUniqueness ==
    /\ MoveTwiceFails(tc.log)
    /\ MoveTwiceFails(rlog)
    /\ HasMovedRead(tc.log) => cres.e = "Moved"
    /\ HasMovedRead(rlog) => rres.err.e = "Moved"

\* a second Move read was attempted and refused, by the checker and by the evaluator
C1_Witness ==
    /\ \E j \in 1..Len(tc.log) :
          IsRead(tc.log[j], {"Move"}) /\ AfterMove(tc.log, j) /\ cres.e = "Moved"
    /\ \E j \in 1..Len(rlog) :
          IsRead(rlog[j], {"Move"}) /\ AfterMove(rlog, j) /\ rres.err.e = "Moved"

\* C2: checker/evaluator agreement.  After check_program returned Ok on a program
\* that defines main, load_program and run_main return no RuntimeError.
C2_CheckedRunsClean ==
    (cres.e = "Ok" /\ \E i \in 1..Len(prog) : prog[i].k = "Func" /\ prog[i].name = "main")
        => lres.e \notin RuntimeErrors /\ rres.err.e \notin RuntimeErrors

\* every moved-value refusal follows a Move read of that binding
OnlyMoveConsumes(L) ==
    \A j \in 1..Len(L) : L[j].ev = "read" /\ L[j].res = "Moved" => AfterMove(L, j)

\* a read right after a successful copy or borrow of the same binding succeeds
ReadAfterCopySucceeds(L) ==
    \A i, j \in 1..Len(L) :
        (/\ i < j
         /\ IsRead(L[i], {"Copy", "Borrow"}) /\ L[i].res = "Ok"
         /\ L[j].ev = "read" /\ SameBinding(L[i], L[j])
         /\ \A k \in (i + 1)..(j - 1) :
               SameBinding(L[k], L[i]) => IsRead(L[k], {"Copy", "Borrow"}))
        => L[j].res = "Ok"

CopyOfMovedFails(L) ==
    \A j \in 1..Len(L) :
        IsRead(L[j], {"Copy", "Borrow"}) /\ AfterMove(L, j) => L[j].res = "Moved"

\* C6: copy/borrow non-consumption.  A copy or borrow of a present binding leaves
\* it present (the next read of it, Move included, succeeds; a moved-value refusal
\* is always due to an earlier Move read), and a copy or borrow of a moved binding
\* fails with a moved-value error; in the checker and in the evaluator.
C6_CopyBorrowNonConsuming ==
    /\ OnlyMoveConsumes(tc.log) /\ OnlyMoveConsumes(rlog)
    /\ ReadAfterCopySucceeds(tc.log) /\ ReadAfterCopySucceeds(rlog)
    /\ CopyOfMovedFails(tc.log) /\ CopyOfMovedFails(rlog)

CopyThenMove(L) ==
    \E i, j \in 1..Len(L) :
        /\ i < j
        /\ IsRead(L[i], {"Copy", "Borrow"}) /\ L[i].res = "Ok"
        /\ IsRead(L[j], {"Move"}) /\ L[j].res = "Ok" /\ SameBinding(L[i], L[j])
        /\ ~Rebound(L, i, j)

\* a copy and a borrow were each followed by a successful Move read, in both logs
C6_Witness ==
    /\ CopyThenMove(tc.log) /\ CopyThenMove(rlog)
    /\ \E i \in 1..Len(rlog) : IsRead(rlog[i], {"Borrow"})
    /\ \E i \in 1..Len(rlog) : IsRead(rlog[i], {"Copy"})

AssignsSucceed(L) ==
    /\ \A j \in 1..Len(L) : L[j].ev = "assign" => L[j].res = "Ok"
    /\ \A i, j \in 1..Len(L) :
          (/\ i < j
           /\ L[i].ev = "assign" /\ L[i].res = "Ok"
           /\ IsRead(L[j], {"Move"}) /\ SameBinding(L[i], L[j])
           /\ \A k \in (i + 1)..(j - 1) : ~SameBinding(L[k], L[i]))
          => L[j].res = "Ok"

\* C7: assignment refresh.  An assignment to a mutable binding succeeds also when
\* the binding is moved, and a Move read that follows it succeeds; in the checker
\* and in the evaluator.
C7_AssignRefreshes == AssignsSucceed(tc.log) /\ AssignsSucceed(rlog)

(***************************************************************************)
(* The escape family: functions with block bodies that return references,  *)
(* and bindings / assignments of nested block values.                      *)
(***************************************************************************)
\* nesting of block expressions around a value
MaxNest == 2

PTy == Named("P")

RTy == Named("R")

O == PathE(<<"o">>)

\* type P = { a: i32 }
\* type R = &P
\* mk() -> i32 = 1
\* view(p: &P) -> &P = p
\* viewR(p: R) -> R = p
EscPrelude ==
    <<TypeD("P", RecordT(<<FieldType("a", I32)>>)),
      TypeD("R", RefT(PTy)),
      FuncD("mk", << >>, Some(I32), LitInt(1)),
      FuncD("view", <<Param(FALSE, "p", RefT(PTy))>>, Some(RefT(PTy)), PathE(<<"p">>)),
      FuncD("viewR", <<Param(FALSE, "p", RTy)>>, Some(RTy), PathE(<<"p">>))>>

RECURSIVE Nest(_, _)
Nest(tail, n) == IF n = 0 THEN tail[1] ELSE BlockE(<< >>, IF n = 1 THEN tail ELSE Some(Nest(tail, n - 1)))

\* tails of the body block of t, after `o: P = { a: 1 }`
EscBodyTails ==
    {None, Some(RefE(O)), Some(FuncCall("view", <<RefE(O)>>)),
     Some(FuncCall("viewR", <<RefE(O)>>)),
     Some(RecordLit(<<FieldInit("r", RefE(O))>>)),
     Some(O), Some(PathE(<<"o", "a">>)), Some(LitInt(1)), Some(FuncCall("mk", << >>)),
     Some(BlockE(<< >>, Some(LitInt(1))))}

EscRets == {None, Some(RTy), Some(RefT(PTy))}

\* values bound or assigned in main, each inside 0..MaxNest blocks
EscInner ==
    {Some(LitInt(1)), Some(PathE(<<"z">>)), Some(CopyE(PathE(<<"z">>))),
     Some(FuncCall("mk", << >>)),
     Some(BlockE(<<BindingS(FALSE, "x", I32, LitInt(1))>>, Some(X))),
     Some(IfE(LitBool(TRUE), LitInt(1), LitInt(2)))}

EscStmts ==
    {BindingS(FALSE, "y", I32, Nest(v, n)) : v \in EscInner, n \in 0..MaxNest}
    \cup {AssignS(<<"w">>, Nest(v, n)) : v \in EscInner, n \in 0..MaxNest}
    \cup {BindingS(FALSE, "u", Named("Unit"), Nest(None, n)) : n \in 1..MaxNest}

\* t() <ret> = { o: P = { a: 1 }  <tail> }
\* main() = { mut w: i32 = 0  z: i32 = 2  <stmt> }
EscPrograms ==
    {EscPrelude \o
       <<FuncD("t", << >>, ret,
               BlockE(<<BindingS(FALSE, "o", PTy, RecordLit(<<FieldInit("a", LitInt(1))>>))>>,
                      tail)),
         FuncD("main", << >>, None,
               BlockE(<<BindingS(TRUE, "w", I32, LitInt(0)),
                        BindingS(FALSE, "z", I32, LitInt(2)), stmt>>, None))>> :
       ret \in EscRets, tail \in EscBodyTails, stmt \in EscStmts}

InitEsc == InitWith(EscPrograms)

SpecEsc == InitEsc /\ [][Next]_vars

(***************************************************************************)
(* Properties of the escape rule                                           *)
(***************************************************************************)
\* C3: escape rule.  Wherever a value whose origin depth exceeds the target depth
\* is bound, assigned or returned, the checker accepts iff the value is escapable
\* and its type, aliases resolved, contains no Ref; otherwise it fails with Escape.
C3_EscapeRule ==
    \A i \in 1..Len(tc.esc_log) :
        LET e == tc.esc_log[i]
        IN ((e.site \in {"binding", "assign", "func"} \/ (e.site = "block" /\ e.allow))
            /\ e.valued /\ e.info.origin_depth > e.target)
           => /\ e.res \in {"Ok", "Escape"}
              /\ (e.res = "Ok") <=> (e.info.escapable /\ ~e.rref)

\* the names a block binds in its own statements
BlockLocals(b) == {b.stmts[i].name : i \in {j \in 1..Len(b.stmts) : b.stmts[j].k = "Binding"}}

IsBorrowOfLocal(e, locals) ==
    e.k = "Ref" /\ e.inner.k = "Path" /\ e.inner.p[1] \in locals

\* the declared return type of the function `name` of the program contains a Ref
\* once aliases are resolved
ReturnsRef(c, name) ==
    /\ name \in DOMAIN c.funcs
    /\ Len(c.funcs[name].ret) = 1
    /\ LET r == resolve_type(c, c.funcs[name].ret[1])
       IN r.err.e = "Ok" /\ type_contains_ref(r.ty)

\* the body is a block whose result is a reference (or a record holding one)
\* obtained from a binding made in that block: a borrow of it, a call that returns
\* a reference and is passed a borrow of it, a record literal with a borrow of it
RefFromBodyLocal(c, body) ==
    /\ body.k = "Block"
    /\ Len(body.tail) = 1
    /\ LET t == body.tail[1]
           locals == BlockLocals(body)
       IN \/ IsBorrowOfLocal(t, locals)
          \/ /\ t.k = "FuncCall"
             /\ ReturnsRef(c, t.callee[1])
             /\ \E i \in 1..Len(t.args) : IsBorrowOfLocal(t.args[i], locals)
          \/ /\ t.k = "RecordLit"
             /\ \E i \in 1..Len(t.fields) : IsBorrowOfLocal(t.fields[i].value, locals)

FuncDecl(name) == prog[CHOOSE i \in 1..Len(prog) : prog[i].k = "Func" /\ prog[i].name = name]

\* C4: reference escape rejection.  Every check of a function whose block body
\* returns a reference obtained from a value constructed in that block fails with
\* Escape.
C4_RefEscapeRejected ==
    \A i \in 1..Len(fres) :
        RefFromBodyLocal(tc, FuncDecl(fres[i].name).body) => fres[i].err.e = "Escape"

\* the tail value of the block was produced inside the block
RECURSIVE ProducedInside(_)
ProducedInside(b) ==
    /\ Len(b.tail) = 1
    /\ LET t == b.tail[1]
       IN \/ t.k \in {"Literal", "FuncCall", "If"}
          \/ t.k = "Path" /\ t.p[1] \in BlockLocals(b)
          \/ t.k = "Copy" /\ t.inner.k = "Path" /\ t.inner.p[1] \in BlockLocals(b)
          \/ t.k = "Block" /\ ProducedInside(t)

\* binding or assigning the value of a block that produced it fails with Escape
NestedValueRejected(e) ==
    (e.site \in {"binding", "assign"} /\ e.expr.k = "Block" /\ ProducedInside(e.expr))
        => e.res # "Ok" /\ (e.valued => e.res = "Escape")

\* a value that left a sub-expression block cannot leave another block
NoSecondEscape(e) ==
    (e.site = "block" /\ ~e.allow /\ e.valued /\ e.info.origin_depth > e.target)
        => e.res = "Escape"

\* C5 as stated: every block used as a sub-expression yields a non-escapable value.
C5_SubBlockNeverEscapable ==
    \A i \in 1..Len(tc.esc_log) :
        LET e == tc.esc_log[i]
        IN /\ (e.site = "blockret" /\ ~e.allow) => ~e.info.escapable
           /\ NestedValueRejected(e)
           /\ NoSecondEscape(e)

\* C5, amended: a block with a tail expression, used as a sub-expression, yields a
\* non-escapable value, so binding or assigning a tail value produced inside the
\* block fails with Escape, and such a value cannot leave a further block; only
\* the body block of a function normalizes its value.  (A block without a tail
\* yields an escapable Unit.)
C5_NestedBlockRejected ==
    \A i \in 1..Len(tc.esc_log) :
        LET e == tc.esc_log[i]
        IN /\ (e.site = "blockret" /\ ~e.allow /\ Len(e.expr.tail) = 1)
                => ~e.info.escapable
           /\ (e.site = "blockret" /\ e.allow) => e.info.origin_depth = e.target
           /\ NestedValueRejected(e)
           /\ NoSecondEscape(e)

\* a binding of a nested block value produced inside the block was refused, and so
\* was a value that tried to leave a second block
C5_Witness ==
    /\ \E i \in 1..Len(tc.esc_log) :
          LET e == tc.esc_log[i]
          IN e.site = "binding" /\ e.expr.k = "Block" /\ ProducedInside(e.expr)
             /\ e.valued /\ e.res = "Escape"
    /\ cres.e = "Escape"

(***************************************************************************)
(* The inference family: functions without parameters that call each other *)
(* in every declaration order, with and without return annotations.        *)
(***************************************************************************)
\* number of functions of a program
MaxFuncs == 3

FuncNames == <<"main", "f", "g", "h">>

Pool == {FuncNames[i] : i \in 1..MaxFuncs}

NameIndex(n) == CHOOSE i \in 1..MaxFuncs : FuncNames[i] = n

Succ(n) == FuncNames[(NameIndex(n) % MaxFuncs) + 1]

Pred(n) == FuncNames[((NameIndex(n) + MaxFuncs - 2) % MaxFuncs) + 1]

\* n() = 1 | n() = s() | n() -> i32 = s() | n() = p() | n() = { s() } | n() -> i32 = true
InferVariants(n) ==
    {FuncD(n, << >>, None, LitInt(1)),
     FuncD(n, << >>, None, FuncCall(Succ(n), << >>)),
     FuncD(n, << >>, Some(I32), FuncCall(Succ(n), << >>)),
     FuncD(n, << >>, None, FuncCall(Pred(n), << >>)),
     FuncD(n, << >>, None, BlockE(<< >>, Some(FuncCall(Succ(n), << >>)))),
     FuncD(n, << >>, Some(I32), LitBool(TRUE))}

\* the sequences of distinct names of the pool, in every order
Orders == {s \in SeqsUpTo(Pool, MaxFuncs) :
              Len(s) >= 1 /\ \A i, j \in 1..Len(s) : i # j => s[i] # s[j]}

\* the programs that declare the names of o in that order
RECURSIVE ProgramsOf(_)
ProgramsOf(o) ==
    IF o = << >> THEN {<< >>}
    ELSE {<<d>> \o rest : d \in InferVariants(Head(o)), rest \in ProgramsOf(Tail(o))}

InferPrograms == UNION {ProgramsOf(o) : o \in Orders}

InitInfer == InitWith(InferPrograms)

SpecInfer == InitInfer /\ [][Next]_vars

(***************************************************************************)
(* Properties of the return-type worklist                                  *)
(***************************************************************************)
FuncDecls == SelectSeq(prog, LAMBDA d : d.k = "Func")

Declared == {FuncDecls[i].name : i \in 1..Len(FuncDecls)}

DeclIndex(name) == CHOOSE i \in 1..Len(FuncDecls) : FuncDecls[i].name = name

Annotated(name) == name \in Declared /\ Len(FuncDecl(name).ret) = 1

\* the functions a body calls
Callees(body) ==
    CASE body.k = "FuncCall" -> {body.callee[1]}
      [] body.k = "Block" /\ Len(body.tail) = 1 /\ body.tail[1].k = "FuncCall" ->
           {body.tail[1].callee[1]}
      [] OTHER -> {}

\* an annotated function whose literal body has another type
AnnotationMismatch(d) ==
    Len(d.ret) = 1 /\ d.body.k = "Literal" /\ literal_type(d.body.lit) # d.ret[1]

\* d checks once the return types of the functions of R have been inferred
BodyOk(d, R) ==
    /\ ~AnnotationMismatch(d)
    /\ \A c \in Callees(d.body) : c \in Declared /\ (Annotated(c) \/ c \in R)

\* the functions whose check can succeed, whatever the declaration order: the
\* least set closed under "every callee is annotated or already in the set"
RECURSIVE Resolve(_)
Resolve(R) ==
    LET new == {n \in Declared \ R : BodyOk(FuncDecl(n), R)}
    IN IF new = {} THEN R ELSE Resolve(R \cup new)

Inferable == Resolve({}) = Declared

\* C8: forward return-type inference is order-independent.  When every function
\* of the program is inferable (a fact about the set of declarations, not their
\* order), check_program succeeds, and each successful check of a function f that
\* calls g found the return type of g in g's signature, whether g is declared
\* before or after f.
C8_ForwardInference ==
    (cpc = "done" /\ Inferable /\ passes > 0)
        => /\ cres.e = "Ok"
           /\ \A i \in 1..Len(fres) :
                 fres[i].err.e = "Ok"
                    => \A g \in Callees(FuncDecl(fres[i].name).body) :
                          fres[i].before[g].ret = Some(I32)
           /\ \A n \in Declared : \E i \in 1..Len(fres) :
                 fres[i].name = n /\ fres[i].err.e = "Ok"

\* f is declared before the un-annotated g it calls, was deferred in the first
\* pass and checked in a later one with g's inferred return type
C8_Witness ==
    /\ cpc = "done"
    /\ cres.e = "Ok"
    /\ \E f, g \in Declared :
          /\ g \in Callees(FuncDecl(f).body)
          /\ ~Annotated(g)
          /\ DeclIndex(f) < DeclIndex(g)
          /\ \E i, j \in 1..Len(fres) :
                /\ i < j
                /\ fres[i].name = f /\ fres[i].err.e = "UnknownFuncReturn"
                /\ fres[j].name = f /\ fres[j].err.e = "Ok"
                /\ fres[j].before[g].ret = Some(I32)

\* the entries of fres made in pass p
PassEntries(p) == SelectSeq(fres, LAMBDA r : r.pass = p)

EntryNames(rs) == [i \in 1..Len(rs) |-> rs[i].name]

DeclNames(ds) == [i \in 1..Len(ds) |-> ds[i].name]

IsDeferral(r) == r.err.e = "UnknownFuncReturn"

\* f and g call each other and neither is annotated
MutualRecursion ==
    \E f, g \in Declared :
        /\ f # g
        /\ ~Annotated(f) /\ ~Annotated(g)
        /\ g \in Callees(FuncDecl(f).body)
        /\ f \in Callees(FuncDecl(g).body)

\* C9: worklist failure.  A function that fails only for want of a callee's return
\* type is deferred, not reported; any other failure is returned at once; a pass
\* without a success ends the check with UnknownFuncReturn naming the first
\* function deferred in that pass; un-annotated mutual recursion is never accepted.
C9_WorklistFailure ==
    /\ cpc = "pass"
          => /\ cres = Running
             /\ DeclNames(deferred)
                  = EntryNames(SelectSeq(PassEntries(passes), IsDeferral))
    /\ \A i \in 1..Len(fres) :
          fres[i].err.e \notin {"Ok", "UnknownFuncReturn"}
             => i = Len(fres) /\ cpc = "done" /\ cres = fres[i].err
    /\ (cpc = "done" /\ passes > 0
        /\ \A i \in 1..Len(fres) : fres[i].pass = passes => IsDeferral(fres[i]))
          => /\ cres = Err("UnknownFuncReturn", <<PassEntries(passes)[1].name>>)
             /\ ~Inferable
    /\ (cpc = "done" /\ passes > 0 /\ cres.e = "UnknownFuncReturn")
          => \A i \in 1..Len(fres) : fres[i].pass = passes => IsDeferral(fres[i])
    /\ (cpc = "done" /\ MutualRecursion) => cres.e # "Ok"
    /\ (cpc = "done" /\ cres.e = "Ok" /\ passes > 0) => Inferable

\* after a pass with progress, a pass over two mutually recursive functions made
\* none, and the error names the first of them
C9_Witness ==
    /\ cpc = "done"
    /\ passes >= 2
    /\ Len(deferred) >= 2
    /\ MutualRecursion
    /\ cres = Err("UnknownFuncReturn", <<deferred[1].name>>)
    /\ deferred[1].name # deferred[Len(deferred)].name

\* what is left of the pass budget: n + 2 steps for each pass not yet started
PassBudget == (Len(FuncDecls) - passes) * (Len(FuncDecls) + 2)

\* the number of steps check_program can still take
Rank ==
    CASE cpc = "pass1" -> Len(prog) + 2 + Len(FuncDecls) * (Len(FuncDecls) + 2) + 1
      [] cpc = "decls" -> (Len(prog) + 1 - gi) + 1 + PassBudget + 1
      [] cpc = "while" -> PassBudget + 1
      [] cpc = "pass" -> PassBudget + Len(queue) + 2
      [] OTHER -> 0

\* C10: worklist termination.  The worklist makes at most n passes over a program
\* with n functions: every pass that does not end the check leaves fewer pending
\* functions, and every step of check_program lowers a rank that is never
\* negative, so the check ends; it ends with Ok only when nothing is pending and
\* with an error when a pass made no progress.
C10_WorklistTerminates ==
    /\ [](/\ passes <= Len(FuncDecls)
          /\ Rank >= 0
          /\ cpc = "while" => Len(pending) + passes <= Len(FuncDecls)
          /\ (cpc = "pass" /\ passes > 0)
                => Len(queue) + Len(deferred) + passes <= Len(FuncDecls) + 1
          /\ (cpc = "done" /\ cres.e = "Ok") => pending = << >>
          /\ (cpc = "done" /\ passes > 0 /\ cres.e # "Ok")
                => (~progressed \/ fres[Len(fres)].err = cres))
    /\ [][cpc # "done" => Rank' < Rank]_vars

\* a chain main -> f -> g declared in calling order needs as many passes as there
\* are functions
C10_Witness ==
    /\ cpc = "done"
    /\ cres.e = "Ok"
    /\ Len(FuncDecls) = MaxFuncs
    /\ passes = Len(FuncDecls)


(***************************************************************************)
(* Scope-stack discipline of check_func and check_block                    *)
(***************************************************************************)
\* C11: every check_func call that returns Ok or UnknownFuncReturn leaves the
\* scope stack as high as it found it, and finds only the global scope on it.
C11_ScopeDiscipline ==
    \A i \in 1..Len(fres) :
       fres[i].err.e \in {"Ok", "UnknownFuncReturn"} =>
          /\ fres[i].h1 = fres[i].h0
          /\ fres[i].h0 = 1

(***************************************************************************)
(* The main-arity family: one main, with zero, one or two parameters, its  *)
(* body well-typed, ill-typed or calling f; f absent, before or after main *)
(***************************************************************************)
MainParams ==
    {<< >>,
     <<Param(FALSE, "x", I32)>>,
     <<Param(TRUE, "x", I32), Param(FALSE, "y", Named("bool"))>>}

\* x | 1 | x + true | z | f() | { f() } | { y: i32 = x  y }
MainBodies ==
    {X,
     LitInt(1),
     Binary(X, "Add", LitBool(TRUE)),
     PathE(<<"z">>),
     FuncCall("f", << >>),
     BlockE(<< >>, Some(FuncCall("f", << >>))),
     BlockE(<<BindingS(FALSE, "y", I32, X)>>, Some(PathE(<<"y">>)))}

MainRets == {None, Some(I32), Some(Named("bool"))}

\* f() = 1 | f() -> i32 = 1 | f() = main() | f() = true + 1
MainOthers ==
    {FuncD("f", << >>, None, LitInt(1)),
     FuncD("f", << >>, Some(I32), LitInt(1)),
     FuncD("f", << >>, None, FuncCall("main", << >>)),
     FuncD("f", << >>, None, Binary(LitBool(TRUE), "Add", LitInt(1)))}

MainPrograms ==
    UNION {{<<m>>} \cup UNION {{<<m, f>>, <<f, m>>} : f \in MainOthers} :
             m \in {FuncD("main", ps, ret, body) :
                      ps \in MainParams, ret \in MainRets, body \in MainBodies}}

InitMain == InitWith(MainPrograms)

SpecMain == InitMain /\ [][Next]_vars

(***************************************************************************)
(* Properties of the main-arity test                                       *)
(***************************************************************************)
MainWithParams == "main" \in Declared /\ Len(FuncDecl("main").params) # 0

\* C12: main arity.  Every check_func call on a main that declares parameters
\* returns MainHasParams and leaves the checker exactly as it was (no scope pushed,
\* no binding event, no signature changed: the body was not examined); it is the
\* last call of check_program, whose result is MainHasParams.
C12_MainArity ==
    \A i \in 1..Len(fres) :
       (fres[i].name = "main" /\ MainWithParams) =>
          /\ fres[i].err.e = "MainHasParams"
          /\ fres[i].untouched
          /\ i = Len(fres)
          /\ cpc = "done"
          /\ cres.e = "MainHasParams"

\* main(mut x: i32, y: bool) = { f() } declared before an unannotated f: the body
\* calls a function whose return type is still unknown, yet the result is
\* MainHasParams
C12_Witness ==
    /\ MainWithParams
    /\ FuncDecl("main").body = BlockE(<< >>, Some(FuncCall("f", << >>)))
    /\ "f" \in Declared
    /\ ~Annotated("f")
    /\ fres # << >>
    /\ fres[Len(fres)].name = "main"
    /\ fres[Len(fres)].err.e = "MainHasParams"
    /\ cres.e = "MainHasParams"

\* main(x: i32) -> i32 = x + true: an ill-typed body, the same result
C12_WitnessIllTyped ==
    /\ MainWithParams
    /\ FuncDecl("main").body = Binary(X, "Add", LitBool(TRUE))
    /\ cres.e = "MainHasParams"

(***************************************************************************)
(* The command-line family: the programs of the main-arity family and two  *)
(* programs that call print, assembled by append_builtin_prints and driven *)
(* by run_interpreter (cmode "run") or emit_and_maybe_build (cmode "emit") *)
(***************************************************************************)
\* print(msg: Str) -> Str = "u"  main() = print("a")   |   main() = println("a")
CliPrintPrograms ==
    {<<FuncD("print", <<Param(FALSE, "msg", Named("Str"))>>, Some(Named("Str")),
             LitStr("u")),
       FuncD("main", << >>, None, FuncCall("print", <<LitStr("a")>>))>>,
     <<FuncD("main", << >>, None, FuncCall("println", <<LitStr("a")>>))>>}

CliPrograms == {append_builtin_prints(p) : p \in MainPrograms \cup CliPrintPrograms}

InitCli == InitState(CliPrograms, {"run", "emit"})

SpecCli == InitCli /\ [][Next]_vars

(***************************************************************************)
(* Properties of the command line                                          *)
(***************************************************************************)
\* C13: check is a gate.  In both modes of the command line, load_program,
\* run_main and generate_c are called only after check_program has returned, and
\* only if it returned Ok: once it has returned an error none of them is ever
\* called.  (The run mode never generates C and the emit mode never interprets.)
C13_CheckIsGate ==
    cmode \in {"run", "emit"} =>
       /\ (ipc # "new" \/ runs # 0 \/ gres # NotCalled) => (cpc = "done" /\ cres.e = "Ok")
       /\ cmode = "run" => gres = NotCalled
       /\ cmode = "emit" => (ipc = "new" /\ runs = 0)

\* check_program has returned an error under emit_and_maybe_build
C13_Witness ==
    /\ cmode = "emit"
    /\ cpc = "done"
    /\ cres.e \notin {"Ok", "Running"}
    /\ gres = NotCalled

\* run_interpreter after a successful check: load_program and run_main were called
C13_WitnessRun ==
    /\ cmode = "run"
    /\ cres.e = "Ok"
    /\ runs = 1
    /\ rres.err.e = "Ok"

\* emit_and_maybe_build after a successful check: generate_c was called
C13_WitnessEmit ==
    /\ cmode = "emit"
    /\ cres.e = "Ok"
    /\ gres.err.e = "Ok"

(***************************************************************************)
(* The arithmetic family: main() = <l> <op> <r>                            *)
(***************************************************************************)
ArithOperands ==
    {LitInt(0), LitInt(1), LitInt(7), Unary("Neg", LitInt(7)),
     LitStr("a"), LitStr(""), LitBool(TRUE)}

BinaryOps == {"Add", "Sub", "Mul", "Div", "Lt", "Eq", "And", "Or"}

ArithPrograms ==
    {<<FuncD("main", << >>, None, Binary(l, op, r))>> :
       l \in ArithOperands, r \in ArithOperands, op \in BinaryOps}

InitArith == InitWith(ArithPrograms)

SpecArith == InitArith /\ [][Next]_vars

(***************************************************************************)
(* Properties of eval_binary                                               *)
(***************************************************************************)
MainBody == FuncDecl("main").body

\* C14: no crash on failure.  No call of load_program or run_main ends the process:
\* a failing evaluation, an integer division by zero included, is returned as a
\* RuntimeError.
C14_NoCrash ==
    /\ lres.e \notin Aborts
    /\ rres.err.e \notin Aborts

StrLit(e) == e.k = "Literal" /\ e.lit.k = "Str"

StrArith ==
    /\ MainBody.k = "Binary"
    /\ MainBody.op \in {"Add", "Sub", "Mul", "Div"}
    /\ StrLit(MainBody.left)
    /\ StrLit(MainBody.right)

C16_WitnessConcat ==
    /\ MainBody = Binary(LitStr("a"), "Add", LitStr("a"))
    /\ cres.e = "Ok"
    /\ rres = [err |-> OkE, val |-> VStr("aa")]

(***************************************************************************)
(* The alias family: an alias table, acyclic or cyclic, and one use of a   *)
(* type of the table in a global, a parameter or a local binding           *)
(***************************************************************************)
AliasA == Named("A")

\* type A = i32 | type A = B, type B = i32 | type A = &i32 | type A = C (undeclared)
AcyclicTables ==
    {<<TypeD("A", I32)>>,
     <<TypeD("A", Named("B")), TypeD("B", I32)>>,
     <<TypeD("A", RefT(I32))>>,
     <<TypeD("A", Named("C"))>>}

\* type A = A | type A = B, type B = A | type A = &A | type A = { f: A }
CyclicTables ==
    {<<TypeD("A", AliasA)>>,
     <<TypeD("A", Named("B")), TypeD("B", AliasA)>>,
     <<TypeD("A", RefT(AliasA))>>,
     <<TypeD("A", RecordT(<<FieldType("f", AliasA)>>))>>}

AliasUseTypes == {AliasA, RefT(AliasA), I32}

\* global g: T = 1  main() = 1  |  f(p: T) -> i32 = 1  main() = 1  |
\* main() = { x: T = 1  2 }
AliasUses(ty) ==
    {<<GlobalD(FALSE, "g", ty, LitInt(1)), FuncD("main", << >>, None, LitInt(1))>>,
     <<FuncD("f", <<Param(FALSE, "p", ty)>>, Some(I32), LitInt(1)),
       FuncD("main", << >>, None, LitInt(1))>>,
     <<FuncD("main", << >>, None,
             BlockE(<<BindingS(FALSE, "x", ty, LitInt(1))>>, Some(LitInt(2))))>>}

AliasPrograms ==
    UNION {{t \o u : u \in AliasUses(ty)} :
             t \in AcyclicTables \cup CyclicTables, ty \in AliasUseTypes}

InitAlias == InitWith(AliasPrograms)

SpecAlias == InitAlias /\ [][Next]_vars

(***************************************************************************)
(* Properties of alias resolution                                          *)
(***************************************************************************)
\* C15: alias resolution terminates.  For every alias table, a cyclic one
\* included, neither check_program (resolve_type) nor generate_c (resolve_alias)
\* recurses without end; each returns a result or an error.
C15_AliasResolutionTerminates ==
    /\ cres.e \notin Aborts
    /\ gres.err.e \notin Aborts

\* the half of the code generator: resolve_alias returns for every table
C15_CgenTerminates == gres.err.e \notin Aborts

\* the tables whose cycle goes through a name only
NameCycle == \E i \in 1..Len(prog) : prog[i].k = "Type" /\ prog[i].ty.k = "Named"

\* the code generator on the cycles of names: resolve_alias returns
C15_CgenNameCyclesTerminate == NameCycle => gres.err.e \notin Aborts

(***************************************************************************)
(* The print family: print and println declared by the program or not, and *)
(* a main that calls one of them                                           *)
(***************************************************************************)
PrintNames == {"print", "println"}

\* n(msg: Str) -> Str = "u" | n(msg: Str) -> Str = msg | n(k: i32) -> i32 = k
UserPrints(n) ==
    {FuncD(n, <<StrParam("msg")>>, Some(Named("Str")), LitStr("u")),
     FuncD(n, <<StrParam("msg")>>, Some(Named("Str")), PathE(<<"msg">>)),
     FuncD(n, <<Param(FALSE, "k", I32)>>, Some(I32), PathE(<<"k">>))}

\* print(msg: Str) -> Str = println(msg)
PrintViaPrintln ==
    FuncD("print", <<StrParam("msg")>>, Some(Named("Str")),
          FuncCall("println", <<PathE(<<"msg">>)>>))

\* the declarations of the program besides main
PrintDecls ==
    {p \o l : p \in {<< >>} \cup {<<d>> : d \in UserPrints("print") \cup {PrintViaPrintln}},
              l \in {<< >>} \cup {<<d>> : d \in UserPrints("println")}}

SBlock(n) ==
    BlockE(<<BindingS(FALSE, "s", Named("Str"), LitStr("a"))>>,
           Some(FuncCall(n, <<PathE(<<"s">>)>>)))

\* n("a") | n(1) | { s: Str = "a"  n(s) } | n("a", "b") | n(n("a"))
PrintBodies ==
    UNION {{FuncCall(n, <<LitStr("a")>>),
            FuncCall(n, <<LitInt(1)>>),
            SBlock(n),
            FuncCall(n, <<LitStr("a"), LitStr("b")>>),
            FuncCall(n, <<FuncCall(n, <<LitStr("a")>>)>>)} : n \in PrintNames}

PrintPrograms ==
    UNION {{d \o <<FuncD("main", << >>, None, b)>>, <<FuncD("main", << >>, None, b)>> \o d} :
             d \in PrintDecls, b \in PrintBodies}

InitPrint == InitWith(PrintPrograms)

SpecPrint == InitPrint /\ [][Next]_vars

(***************************************************************************)
(* Properties of print and println                                         *)
(***************************************************************************)
\* the string the built-in makes of its argument value
BuiltinStr(v) == IF v.k = "Str" THEN v.s ELSE DebugFmt(v)

\* what a call of n with the argument value v returns
RECURSIVE CallValue(_, _)
CallValue(n, v) ==
    IF n \notin Declared THEN VStr(BuiltinStr(v))
    ELSE CASE FuncDecl(n).body.k = "Literal" -> literal_value(FuncDecl(n).body.lit)
           [] FuncDecl(n).body.k = "Path" -> v
           [] FuncDecl(n).body.k = "FuncCall" -> CallValue(FuncDecl(n).body.callee[1], v)

\* what a call of n with the argument value v writes
RECURSIVE CallOut(_, _)
CallOut(n, v) ==
    IF n \notin Declared THEN <<[fn |-> <<n>>, s |-> BuiltinStr(v)]>>
    ELSE IF FuncDecl(n).body.k = "FuncCall" THEN CallOut(FuncDecl(n).body.callee[1], v)
    ELSE << >>

\* main() = n(<literal>)
LitCall ==
    /\ MainBody.k = "FuncCall"
    /\ MainBody.callee[1] \in PrintNames
    /\ Len(MainBody.args) = 1
    /\ MainBody.args[1].k = "Literal"

ReadsOf(name) == {k \in 1..Len(rlog) : rlog[k].ev = "read" /\ rlog[k].name = name}

\* C17: user-defined print/println take precedence.  After pass 1 the checker
\* holds the user's signature for a declared print/println and the built-in one
\* otherwise, and accepts main() = n(<literal>) iff the literal has the type of
\* that signature's parameter.  The evaluator never runs the built-in under a
\* name the program declares: a call returns what the user's body returns and
\* writes nothing under that name.  For an undeclared name the built-in runs: it
\* reads its argument once, writes the string once and returns that same string.
C17_UserPrintFirst ==
    /\ cpc # "pass1" =>
          \A n \in PrintNames :
             tc.funcs[n].params = IF n \in Declared THEN FuncDecl(n).params
                                  ELSE <<StrParam("msg")>>
    /\ LitCall =>
          \A i \in 1..Len(fres) :
             fres[i].name = "main" =>
                (fres[i].err.e = "Ok"
                   <=> literal_type(MainBody.args[1].lit)
                          = fres[i].before[MainBody.callee[1]].params[1].ty)
    /\ \A k \in 1..Len(rout) : rout[k].fn[1] \notin Declared
    /\ (LitCall /\ runs > 0) =>
          /\ rres.err.e = "Ok"
          /\ rres.val = CallValue(MainBody.callee[1], literal_value(MainBody.args[1].lit))
          /\ rout = CallOut(MainBody.callee[1], literal_value(MainBody.args[1].lit))
    /\ \A n \in PrintNames \ Declared :
          (MainBody = SBlock(n) /\ runs > 0) =>
             /\ rres = [err |-> OkE, val |-> VStr("a")]
             /\ rout = <<[fn |-> <<n>>, s |-> "a"]>>
             /\ Cardinality(ReadsOf("s")) = 1

\* print(msg: Str) -> Str = "u"  main() = print("a"): run to "u", nothing written
C17_Witness ==
    /\ "print" \in Declared
    /\ FuncDecl("print").body = LitStr("u")
    /\ MainBody = FuncCall("print", <<LitStr("a")>>)
    /\ cres.e = "Ok"
    /\ runs > 0
    /\ rres = [err |-> OkE, val |-> VStr("u")]
    /\ rout = << >>

\* main() = { s: Str = "a"  println(s) } without a user println: the built-in ran
C17_WitnessBuiltin ==
    /\ "println" \notin Declared
    /\ MainBody = SBlock("println")
    /\ cres.e = "Ok"
    /\ rout = <<[fn |-> <<"println">>, s |-> "a"]>>
    /\ rres.val = VStr("a")

\* print(k: i32) -> i32 = k  main() = print(1): checked against the user's signature
C17_WitnessUserSig ==
    /\ "print" \in Declared
    /\ MainBody = FuncCall("print", <<LitInt(1)>>)
    /\ cres.e = "Ok"
    /\ tc.funcs["main"].ret = Some(I32)

(***************************************************************************)
(* The re-declaration family:                                              *)
(*   main() = { [mut] x: i32 = 1   y: i32 = x | y: i32 = copy x            *)
(*              [mut] x: T = v  |  { [mut] x: T = v }  |  { [mut] x: T = v  x } *)
(*              x = 3 | x = "b" | 0                                        *)
(*              x }                                                        *)
(***************************************************************************)
RedeclFirst == {BindingS(m, "x", I32, LitInt(1)) : m \in BOOLEAN}

RedeclReads == {BindingS(FALSE, "y", I32, X), BindingS(FALSE, "y", I32, CopyE(X))}

RedeclSecond ==
    {BindingS(m, "x", I32, LitInt(5)) : m \in BOOLEAN}
       \cup {BindingS(m, "x", Named("Str"), LitStr("a")) : m \in BOOLEAN}

RedeclThird ==
    RedeclSecond
       \cup {ExprS(BlockE(<<d>>, None)) : d \in RedeclSecond}
       \cup {ExprS(BlockE(<<d, ExprS(X)>>, None)) : d \in RedeclSecond}

RedeclLast == {AssignS(<<"x">>, LitInt(3)), AssignS(<<"x">>, LitStr("b")), ExprS(LitInt(0))}

RedeclPrograms ==
    {<<FuncD("main", << >>, None, BlockE(<<d1, rd, d2, a>>, Some(X)))>> :
       d1 \in RedeclFirst, rd \in RedeclReads, d2 \in RedeclThird, a \in RedeclLast}

InitRedecl == InitWith(RedeclPrograms)

SpecRedecl == InitRedecl /\ [][Next]_vars

(***************************************************************************)
(* Properties of re-declaration                                            *)
(***************************************************************************)
\* the second declaration of x is in the scope of the first
SameScope == MainBody.stmts[3].k = "Binding"

Second == MainBody.stmts[3]

Last == MainBody.stmts[4]

\* what the checker returns for main when x is the binding `Second`
RedeclCheckErr ==
    IF Last.k = "Assign" /\ ~Second.mutable THEN Err("NotMutable", <<"x">>)
    ELSE IF Last.k = "Assign" /\ literal_type(Last.value.lit) # Second.ty
    THEN Err("TypeMismatch", << >>)
    ELSE OkE

\* what run_main returns when x is the binding `Second`
RedeclRun ==
    IF Last.k = "Assign" /\ ~Second.mutable
    THEN [err |-> Err("NotMutable", <<"x">>), val |-> VUnit]
    ELSE [err |-> OkE,
          val |-> literal_value(IF Last.k = "Assign" THEN Last.value.lit
                                ELSE Second.value.lit)]

\* the program without its inner block
WithoutBlock ==
    <<FuncD("main", << >>, None,
            BlockE([MainBody.stmts EXCEPT ![3] = ExprS(LitInt(0))], MainBody.tail))>>

CheckOf(p) == check_func(push_scope(collect_decls(TypeCheckerNew, p, 1)), p[1])

RunOf(p) == run_main(load_program(InterpreterNew, p).it)

\* C18: re-declaration.  A second declaration of x in the scope of the first
\* raises no error and replaces the binding by a fresh present one with the new
\* type, value and mutability, in checker and evaluator: whether or not the first
\* x was moved, the rest of main is checked and run against the second x alone.
\* A declaration of x in an inner block leaves the outer x as it was: main is
\* checked and run with the same result as without the block.
C18_Redeclaration ==
    /\ SameScope =>
          /\ \A i \in 1..Len(fres) :
                /\ fres[i].err.e = RedeclCheckErr.e
                /\ fres[i].err.e = "NotMutable" => fres[i].err = RedeclCheckErr
                /\ fres[i].err.e = "Ok" => fres[i].funcs["main"].ret = Some(Second.ty)
          /\ runs > 0 => (rres.err = RedeclRun.err /\ rres.val = RedeclRun.val)
    /\ ~SameScope =>
          /\ \A i \in 1..Len(fres) :
                /\ fres[i].err = CheckOf(WithoutBlock).err
                /\ fres[i].funcs = CheckOf(WithoutBlock).tc.funcs
          /\ runs > 0 => (rres.err = RunOf(WithoutBlock).err
                            /\ rres.val = RunOf(WithoutBlock).val)

\* main() = { x: i32 = 1  y: i32 = x  x: Str = "a"  0  x }: the first x was moved,
\* the read after the re-declaration succeeds, with the new type and value
C18_Witness ==
    /\ MainBody.stmts = <<BindingS(FALSE, "x", I32, LitInt(1)),
                          BindingS(FALSE, "y", I32, X),
                          BindingS(FALSE, "x", Named("Str"), LitStr("a")),
                          ExprS(LitInt(0))>>
    /\ cres.e = "Ok"
    /\ tc.funcs["main"].ret = Some(Named("Str"))
    /\ runs > 0
    /\ rres = [err |-> OkE, val |-> VStr("a")]

\* main() = { x: i32 = 1  y: i32 = x  { mut x: i32 = 5 }  0  x }: the outer x is
\* still moved after the block, in checker and evaluator
C18_WitnessOuter ==
    /\ MainBody.stmts = <<BindingS(FALSE, "x", I32, LitInt(1)),
                          BindingS(FALSE, "y", I32, X),
                          ExprS(BlockE(<<BindingS(TRUE, "x", I32, LitInt(5))>>, None)),
                          ExprS(LitInt(0))>>
    /\ cres = Err("Moved", <<"x">>)
    /\ runs > 0
    /\ rres.err = Err("Moved", <<"x">>)

(***************************************************************************)
(* The if family:                                                          *)
(*   main() = { a: i32 = 1  b: i32 = 2                                     *)
(*              r: i32 = if <cond> then <a-branch> else <b-branch>         *)
(*              a | b | r }                                                *)
(***************************************************************************)
A1 == PathE(<<"a">>)

B2 == PathE(<<"b">>)

\* print("c") == "c": a condition that writes
PrintCond == Binary(FuncCall("print", <<LitStr("c")>>), "Eq", LitStr("c"))

\* the conditions with their value ("X": not a bool) and what they write
IfConds ==
    {[e |-> LitBool(TRUE), v |-> "T", out |-> << >>],
     [e |-> LitBool(FALSE), v |-> "F", out |-> << >>],
     [e |-> Binary(CopyE(A1), "Lt", CopyE(B2)), v |-> "T", out |-> << >>],
     [e |-> Binary(CopyE(B2), "Lt", CopyE(A1)), v |-> "F", out |-> << >>],
     [e |-> PrintCond, v |-> "T", out |-> <<"c">>],
     [e |-> Unary("Not", PrintCond), v |-> "F", out |-> <<"c">>],
     [e |-> LitInt(1), v |-> "X", out |-> << >>]}

\* a branch with the binding it moves ("-": none), its value and what it writes
ThenBranches ==
    {[e |-> A1, mv |-> "a", val |-> 1, out |-> << >>],
     [e |-> BlockE(<<ExprS(FuncCall("print", <<LitStr("t")>>))>>, Some(A1)),
      mv |-> "a", val |-> 1, out |-> <<"t">>],
     [e |-> LitInt(10), mv |-> "-", val |-> 10, out |-> << >>]}

ElseBranches ==
    {[e |-> B2, mv |-> "b", val |-> 2, out |-> << >>],
     [e |-> BlockE(<<ExprS(FuncCall("print", <<LitStr("e")>>))>>, Some(B2)),
      mv |-> "b", val |-> 2, out |-> <<"e">>],
     [e |-> LitInt(20), mv |-> "-", val |-> 20, out |-> << >>]}

IfTails == {A1, B2, PathE(<<"r">>)}

IfPrograms ==
    {<<FuncD("main", << >>, None,
             BlockE(<<BindingS(FALSE, "a", I32, LitInt(1)),
                      BindingS(FALSE, "b", I32, LitInt(2)),
                      BindingS(FALSE, "r", I32, IfE(c.e, t.e, e.e))>>,
                    Some(tl)))>> :
       c \in IfConds, t \in ThenBranches, e \in ElseBranches, tl \in IfTails}

InitIf == InitWith(IfPrograms)

SpecIf == InitIf /\ [][Next]_vars

(***************************************************************************)
(* Properties of the evaluation of if                                      *)
(***************************************************************************)
TheIf == MainBody.stmts[3].value

Cond == CHOOSE c \in IfConds : c.e = TheIf.cond

\* the branch the condition selects
Taken ==
    IF Cond.v = "T" THEN CHOOSE t \in ThenBranches : t.e = TheIf.then_branch
    ELSE CHOOSE e \in ElseBranches : e.e = TheIf.else_branch

\* the strings written, in order
Written == [k \in 1..Len(rout) |-> rout[k].s]

\* the value of the binding the tail of main reads
TailValue ==
    CASE MainBody.tail[1] = A1 -> 1
      [] MainBody.tail[1] = B2 -> 2
      [] OTHER -> Taken.val

\* C19: if evaluates one branch.  run_main evaluates the condition first, then
\* the then-branch when it is true and the else-branch when it is false, once,
\* and nothing of the other branch: what is written is what the condition writes
\* followed by what the taken branch writes, r holds the value of the taken
\* branch, a binding the taken branch moved is moved, and a binding that only the
\* other branch moves is still present.  A condition that is not a bool fails with
\* a Type error before any branch is evaluated.  (The last event of the log is
\* the read of the tail of main, which is not counted among the reads of the if.)
C19_IfOneBranch ==
    runs > 0 =>
       IF Cond.v = "X"
       THEN /\ rres.err = Err("Type", <<"if condition must be bool">>)
            /\ Written = Cond.out
            /\ \A k \in 1..Len(rlog) : rlog[k].ev # "read"
       ELSE /\ Written = Cond.out \o Taken.out
            /\ \A n \in {"a", "b"} :
                  Cardinality({k \in 1..Len(rlog) :
                                 /\ rlog[k].ev = "read"
                                 /\ rlog[k].mode = "Move"
                                 /\ rlog[k].name = n
                                 /\ k < Len(rlog)})
                     = IF Taken.mv = n THEN 1 ELSE 0
            /\ IF MainBody.tail[1] = PathE(<<Taken.mv>>)
               THEN rres.err = Err("Moved", <<Taken.mv>>)
               ELSE rres = [err |-> OkE, val |-> VInt(TailValue)]

\* main() = { a  b  r: i32 = if false then a else { print("e")  b }  a }: a, moved
\* only in the branch not taken, is read by the tail
C19_Witness ==
    /\ TheIf = IfE(LitBool(FALSE), A1,
                   BlockE(<<ExprS(FuncCall("print", <<LitStr("e")>>))>>, Some(B2)))
    /\ MainBody.tail = Some(A1)
    /\ runs > 0
    /\ rres = [err |-> OkE, val |-> VInt(1)]
    /\ Written = <<"e">>

(***************************************************************************)
(* The immutable-assignment family:                                        *)
(*   main() = { [mut] x: i32 = 1   y: i32 = x | y: i32 = copy x            *)
(*              x = <rhs>   x }                                            *)
(***************************************************************************)
\* 2 | x | copy x | x + 1 | "b" | z (undeclared)
AssignValues ==
    {LitInt(2), X, CopyE(X), Binary(X, "Add", LitInt(1)), LitStr("b"), PathE(<<"z">>)}

ImmPrograms ==
    {<<FuncD("main", << >>, None,
             BlockE(<<BindingS(m, "x", I32, LitInt(1)), rd, AssignS(<<"x">>, v)>>,
                    Some(X)))>> :
       m \in BOOLEAN, rd \in RedeclReads, v \in AssignValues}

InitImm == InitWith(ImmPrograms)

SpecImm == InitImm /\ [][Next]_vars

(***************************************************************************)
(* Properties of the assignment to an immutable binding                    *)
(***************************************************************************)
\* x is declared without `mut`
ImmutableTarget == ~MainBody.stmts[1].mutable

\* the binding n is moved at the end of the log L
MovedIn(L, n) ==
    \E k \in 1..Len(L) :
       /\ L[k].ev = "read" /\ L[k].mode = "Move" /\ L[k].name = n /\ L[k].res = "Ok"
       /\ \A j \in (k + 1)..Len(L) :
             ~(L[j].ev \in {"decl", "assign"} /\ L[j].name = n /\ L[j].res = "Ok")

\* the binding n was assigned in the log L
AssignedIn(L, n) ==
    \E k \in 1..Len(L) : L[k].ev = "assign" /\ L[k].name = n /\ L[k].res = "Ok"

\* the assignment failed with NotMutable and left x as the log L had it before
\* (the first three events of L are those of the two statements before the
\* assignment: the declaration of x, the read of x and the declaration of y)
Refused(err, L) ==
    /\ err = Err("NotMutable", <<"x">>)
    /\ ~AssignedIn(L, "x")
    /\ MovedIn(L, "x") = MovedIn(SubSeq(L, 1, 3), "x")

\* C20: immutable assignment.  An assignment to x declared without `mut` fails
\* with NotMutable in the checker and in the evaluator, and x keeps the value and
\* the ownership state it had before the assignment.
C20_ImmutableAssign ==
    ImmutableTarget =>
       /\ cpc = "done" => Refused(cres, tc.log)
       /\ runs > 0 => Refused(rres.err, rlog)

\* the half of the checker
C20_CheckerRefuses == (ImmutableTarget /\ cpc = "done") => Refused(cres, tc.log)

\* the evaluator returns NotMutable or the error of the right-hand side
C20_EvaluatorError ==
    (ImmutableTarget /\ runs > 0) => rres.err.e \in {"NotMutable", "Moved", "UnknownIdent"}

(***************************************************************************)
(* Programs for field access through a reference (tests record_ref_example *)
(* and success_record_ref):                                                *)
(*   type Point = { x: i32, y: Str }                                       *)
(*   type PR = &Point                                                      *)
(*   length_x(p: <&Point | PR>) <ret> = p.<f>                              *)
(*   main() = { mut origin: Point = { x: <a>, y: "s" }  <stmts>            *)
(*              length_x(<arg>) }                                          *)
(***************************************************************************)
PointTy == Named("Point")

Origin == PathE(<<"origin">>)

RefParamTypes == {RefT(PointTy), Named("PR")}

RefFields == {"x", "y", "z"}

RefRets == {None, Some(I32), Some(Named("Str"))}

RefInits == {LitInt(0), LitInt(7)}

\* the statements of main after the declaration of origin, and the argument
RefUses ==
    {[stmts |-> << >>, arg |-> RefE(Origin)],
     [stmts |-> <<AssignS(<<"origin", "x">>, LitInt(5))>>, arg |-> RefE(Origin)],
     [stmts |-> <<BindingS(FALSE, "r", RefT(PointTy), RefE(Origin))>>,
      arg |-> PathE(<<"r">>)],
     [stmts |-> <<BindingS(FALSE, "r", RefT(PointTy), RefE(Origin)),
                  AssignS(<<"origin", "x">>, LitInt(5))>>,
      arg |-> PathE(<<"r">>)],
     [stmts |-> << >>, arg |-> Origin]}

RefPrograms ==
    {<<TypeD("Point", RecordT(<<FieldType("x", I32), FieldType("y", Named("Str"))>>)),
       TypeD("PR", RefT(PointTy)),
       FuncD("length_x", <<Param(FALSE, "p", pty)>>, ret, PathE(<<"p", f>>)),
       FuncD("main", << >>, None,
             BlockE(<<BindingS(TRUE, "origin", PointTy,
                               RecordLit(<<FieldInit("x", a),
                                           FieldInit("y", LitStr("s"))>>))>>
                      \o u.stmts,
                    Some(FuncCall("length_x", <<u.arg>>))))>> :
       pty \in RefParamTypes, f \in RefFields, ret \in RefRets, a \in RefInits,
       u \in RefUses}

InitRef == InitWith(RefPrograms)

SpecRef == InitRef /\ [][Next]_vars

(***************************************************************************)
(* Properties of field access through a reference                          *)
(***************************************************************************)
\* the field read by length_x, its declared type in Point, and the declared result
ReadField == FuncDecl("length_x").body.p[2]

FieldDeclared == ReadField \in {"x", "y"}

FieldTy == IF ReadField = "x" THEN I32 ELSE Named("Str")

DeclaredRet == FuncDecl("length_x").ret

\* main passes a borrow: `&origin` itself, or r bound to `&origin`
ArgBorrowed == MainBody.tail[1].args[1] # Origin

\* the borrow is the first statement after the declaration of origin when r is
\* declared, and the argument of the call otherwise; x is assigned 5 before
\* the borrow exactly when the assignment is the first statement after it
AssignedBeforeBorrow ==
    /\ Len(MainBody.stmts) >= 2
    /\ MainBody.stmts[2].k = "Assign"

\* the value field f of origin has when the borrow is taken
BorrowedFieldValue ==
    IF ReadField = "y" THEN VStr("s")
    ELSE IF AssignedBeforeBorrow THEN VInt(5)
    ELSE literal_value(MainBody.stmts[1].value.fields[1].value.lit)

\* C21: field access through a reference.  For length_x(p: &Point) = p.f with f a
\* field of Point, the checker gives `p.f` the type of f: the check of length_x
\* succeeds exactly when the declared result, if any, is that type, and records
\* that type as the result; called with a borrow of origin, the program checks
\* and run_main returns the value field f of origin had when the borrow was taken.
C21_FieldThroughRef ==
    FieldDeclared =>
       /\ \A i \in 1..Len(fres) :
             fres[i].name = "length_x" =>
                IF DeclaredRet \in {None, Some(FieldTy)}
                THEN /\ fres[i].err.e = "Ok"
                     /\ fres[i].funcs["length_x"].ret = Some(FieldTy)
                ELSE fres[i].err.e = "TypeMismatch"
       /\ (cpc = "done" /\ ArgBorrowed /\ DeclaredRet \in {None, Some(FieldTy)}) =>
             /\ cres.e = "Ok"
             /\ tc.funcs["main"].ret = Some(FieldTy)
       /\ (runs > 0 /\ ArgBorrowed) => rres = [err |-> OkE, val |-> BorrowedFieldValue]

\* r: &Point = &origin, then origin.x = 5, then length_x(r): checked, and run to
\* the value x had at the borrow
C21_Witness ==
    /\ FieldDeclared
    /\ ReadField = "x"
    /\ Len(MainBody.stmts) = 3
    /\ DeclaredRet = None
    /\ cres.e = "Ok"
    /\ tc.funcs["length_x"].ret = Some(I32)
    /\ runs > 0
    /\ rres = [err |-> OkE, val |-> VInt(7)]

\* the parameter declared through the alias PR, the field of type Str
C21_WitnessAlias ==
    /\ FuncDecl("length_x").params[1].ty = Named("PR")
    /\ ReadField = "y"
    /\ ArgBorrowed
    /\ cres.e = "Ok"
    /\ tc.funcs["main"].ret = Some(Named("Str"))
    /\ rres = [err |-> OkE, val |-> VStr("s")]

(***************************************************************************)
(* Programs for the call of a two-parameter function (tests calc_example   *)
(* and run_calc):                                                          *)
(*   add(a: i32, b: i32) -> i32 = <a op b>                                 *)
(*   main() = { x: i32 = <n>  y: i32 = <m>  [a: i32 = 99]  add(<args>) }   *)
(***************************************************************************)
CalcA == PathE(<<"a">>)

CalcB == PathE(<<"b">>)

CalcY == PathE(<<"y">>)

CalcOps == {"Add", "Sub"}

\* the body of add, as an expression, a block, or a block with a local
CalcBodies(op) ==
    {Binary(CalcA, op, CalcB),
     BlockE(<< >>, Some(Binary(CalcA, op, CalcB))),
     BlockE(<<BindingS(FALSE, "s", I32, Binary(CalcA, op, CalcB))>>,
            Some(PathE(<<"s">>)))}

CalcLits == {LitInt(10), LitInt(20), LitInt(3)}

CalcArgs == {<<X, CalcY>>, <<CalcY, X>>}

\* a local of main named like a parameter of add
CalcExtras == {<< >>, <<BindingS(FALSE, "a", I32, LitInt(99))>>}

CalcPrograms ==
    {<<FuncD("add", <<Param(FALSE, "a", I32), Param(FALSE, "b", I32)>>, Some(I32), body),
       FuncD("main", << >>, None,
             BlockE(<<BindingS(FALSE, "x", I32, n), BindingS(FALSE, "y", I32, m)>> \o extra,
                    Some(FuncCall("add", args))))>> :
       body \in UNION {CalcBodies(op) : op \in CalcOps}, n \in CalcLits, m \in CalcLits,
       args \in CalcArgs, extra \in CalcExtras}

InitCalc == InitWith(CalcPrograms)

SpecCalc == InitCalc /\ [][Next]_vars

(***************************************************************************)
(* Properties of the call                                                  *)
(***************************************************************************)
\* the integer main binds to the local the i-th argument of the call names
ArgInt(i) ==
    IF MainBody.tail[1].args[i] = X THEN MainBody.stmts[1].value.lit.i
    ELSE MainBody.stmts[2].value.lit.i

\* `a op b` in the body of add
AddExpr ==
    Bind(FuncDecl("add").body, LAMBDA body :
       IF body.k = "Binary" THEN body
       ELSE IF Len(body.stmts) = 0 THEN body.tail[1] ELSE body.stmts[1].value)

\* first argument op second argument
CallResult ==
    IF AddExpr.op = "Add" THEN ArgInt(1) + ArgInt(2) ELSE ArgInt(1) - ArgInt(2)

\* positions of the declarations of name n in the log L
DeclsOf(L, n) == {i \in 1..Len(L) : L[i].ev = "decl" /\ L[i].name = n}

\* the parameters a and b are declared in this order, after the locals of main
\* and in a scope above theirs
ParamsInNewScope(L) ==
    \E i \in DeclsOf(L, "a"), j \in DeclsOf(L, "b") :
       /\ i < j
       /\ L[i].depth = L[j].depth
       /\ \A k \in DeclsOf(L, "x") \cup DeclsOf(L, "y") :
             k < i /\ L[k].depth < L[i].depth

\* C22: end-to-end call.  For add(a: i32, b: i32) -> i32 = a op b and a main that
\* binds x and y to integer literals and ends with a call of add on them,
\* check_program succeeds and run_main returns the integer <first argument> op
\* <second argument> (x + y for add(x, y) with +): the arguments are bound to the
\* parameters in order in a new scope, and the value of the body's tail is the
\* result of the call.
C22_EndToEndCall ==
    /\ \A i \in 1..Len(fres) : fres[i].err.e = "Ok"
    /\ cpc = "done" =>
          /\ cres.e = "Ok"
          /\ tc.funcs["main"].ret = Some(I32)
    /\ runs > 0 =>
          /\ rres = [err |-> OkE, val |-> VInt(CallResult)]
          /\ ParamsInNewScope(rlog)

\* x: i32 = 10  y: i32 = 20  add(x, y) with a + b: 30
C22_Witness ==
    /\ FuncDecl("add").body = Binary(CalcA, "Add", CalcB)
    /\ MainBody.stmts = <<BindingS(FALSE, "x", I32, LitInt(10)),
                          BindingS(FALSE, "y", I32, LitInt(20))>>
    /\ MainBody.tail[1].args = <<X, CalcY>>
    /\ cres.e = "Ok"
    /\ runs > 0
    /\ rres = [err |-> OkE, val |-> VInt(30)]

\* add(y, x) with a - b and a local a of main: y - x
C22_WitnessOrder ==
    /\ AddExpr.op = "Sub"
    /\ Len(MainBody.stmts) = 3
    /\ MainBody.tail[1].args = <<CalcY, X>>
    /\ ArgInt(1) = 3
    /\ ArgInt(2) = 10
    /\ cres.e = "Ok"
    /\ rres = [err |-> OkE, val |-> VInt(-7)]

(***************************************************************************)
(* The arena on its own: an Arena of any capacity up to MaxCap, driven by  *)
(* any sequence of alloc and reset calls (tests alloc_and_reset and        *)
(* overflow_errors).                                                       *)
(***************************************************************************)
\* largest capacity of the arena; requests go one byte beyond it
MaxCap == 4

\* regions handed out between two resets
MaxRegions == 3

\* Arena::with_capacity(cap); no program is loaded
InitArena ==
    /\ ProgramState({<< >>}, {"lib"})
    /\ arena \in {with_capacity(cap) : cap \in 0..MaxCap}
    /\ ahist = NoOps

\* Arena::alloc(n)
Alloc(n) ==
    /\ Len(ahist.regions) < MaxRegions
    /\ Bind(alloc(arena, n), LAMBDA r :
          /\ arena' = r.arena
          /\ ahist' = [regions |-> IF r.err.e = "Ok" THEN Append(ahist.regions, r.region)
                                   ELSE ahist.regions,
                       last |-> [op |-> "alloc", n |-> n, before |-> arena,
                                 err |-> r.err, region |-> r.region]])
    /\ UNCHANGED <<prog, cmode, gres, checkerVars, interpVars>>

\* Arena::reset
Reset ==
    /\ arena' = reset(arena)
    /\ ahist' = [regions |-> << >>,
                 last |-> [op |-> "reset", n |-> 0, before |-> arena, err |-> OkE,
                           region |-> NoRegion]]
    /\ UNCHANGED <<prog, cmode, gres, checkerVars, interpVars>>

NextArena ==
    \/ \E n \in 0..(MaxCap + 1) : Alloc(n)
    \/ Reset

SpecArena == InitArena /\ [][NextArena]_vars

(***************************************************************************)
(* Properties of the arena                                                 *)
(***************************************************************************)
RECURSIVE TotalSize(_, _)
TotalSize(regions, i) ==
    IF i > Len(regions) THEN 0
    ELSE (regions[i].end - regions[i].start) + TotalSize(regions, i + 1)

\* the half-open byte ranges r and q share a byte
Overlap(r, q) == r.start < q.end /\ q.start < r.end

\* C23: arena accounting.  For an arena of capacity C and any sequence of alloc
\* and reset calls: remaining() is C minus the total size of the successful
\* allocs since the last reset and lies in 0..C; alloc(n) succeeds iff n was at
\* most remaining() before the call, and then returns a region of exactly n bytes
\* inside the buffer that overlaps no region returned since the last reset; a
\* failing alloc returns OutOfCapacity{requested: n, remaining: remaining()} and
\* leaves the arena as it was; after reset remaining() is C.
C23_ArenaAccounting ==
    /\ remaining(arena) = capacity(arena) - TotalSize(ahist.regions, 1)
    /\ remaining(arena) \in 0..capacity(arena)
    /\ ahist.last.op = "alloc" =>
          /\ ahist.last.err.e = "Ok" <=> ahist.last.n <= remaining(ahist.last.before)
          /\ ahist.last.err.e = "Ok" =>
                /\ ahist.last.region.end - ahist.last.region.start = ahist.last.n
                /\ ahist.last.region.start >= 0
                /\ ahist.last.region.end <= capacity(arena)
                /\ ahist.last.region = ahist.regions[Len(ahist.regions)]
                /\ \A i \in 1..(Len(ahist.regions) - 1) :
                      ~Overlap(ahist.regions[i], ahist.last.region)
          /\ ahist.last.err.e # "Ok" =>
                /\ ahist.last.err = OutOfCapacity(ahist.last.n,
                                                  remaining(ahist.last.before))
                /\ arena = ahist.last.before
                /\ remaining(arena) = remaining(ahist.last.before)
    /\ ahist.last.op = "reset" =>
          /\ remaining(arena) = capacity(arena)
          /\ capacity(arena) = capacity(ahist.last.before)

\* a second region handed out next to the first, the arena not yet full
C23_Witness ==
    /\ capacity(arena) = 4
    /\ ahist.regions = <<[start |-> 0, end |-> 1], [start |-> 1, end |-> 3]>>
    /\ ahist.last.op = "alloc"
    /\ remaining(arena) = 1

\* a request beyond what remains, after a successful alloc
C23_WitnessOverflow ==
    /\ Len(ahist.regions) = 1
    /\ ahist.last.op = "alloc"
    /\ ahist.last.err = OutOfCapacity(3, 2)
    /\ remaining(arena) = 2

\* a reset of an arena that had handed out all its bytes
C23_WitnessReset ==
    /\ ahist.last.op = "reset"
    /\ remaining(ahist.last.before) = 0
    /\ remaining(arena) = 4

(***************************************************************************)
(* Programs that read a record through field paths:                        *)
(*   type P2 = { a: i32, b: i32 }                                          *)
(*   main() = { mut p: P2 = { a: 1, b: 2 }  <stmts>  <tail> }              *)
(***************************************************************************)
P2Ty == Named("P2")

PWhole == PathE(<<"p">>)

PA == PathE(<<"p", "a">>)

PB == PathE(<<"p", "b">>)

P2Lit(i, j) == RecordLit(<<FieldInit("a", LitInt(i)), FieldInit("b", LitInt(j))>>)

FieldStmts ==
    {BindingS(FALSE, "u", I32, PA),
     BindingS(FALSE, "u", I32, PB),
     BindingS(FALSE, "v", I32, CopyE(PB)),
     BindingS(FALSE, "w", RefT(I32), RefE(PA)),
     BindingS(FALSE, "q", P2Ty, PWhole),
     BindingS(FALSE, "q", P2Ty, CopyE(PWhole)),
     BindingS(FALSE, "r", RefT(P2Ty), RefE(PWhole)),
     BindingS(TRUE, "p", P2Ty, P2Lit(3, 4)),
     AssignS(<<"p">>, P2Lit(3, 4)),
     AssignS(<<"p", "a">>, LitInt(5))}

FieldTails == {None, Some(PB), Some(PWhole)}

FieldPrograms ==
    {<<TypeD("P2", RecordT(<<FieldType("a", I32), FieldType("b", I32)>>)),
       FuncD("main", << >>, None,
             BlockE(<<BindingS(TRUE, "p", P2Ty, P2Lit(1, 2))>> \o ss, t))>> :
       ss \in SeqsUpTo(FieldStmts, MaxStmts), t \in FieldTails}

InitField == InitWith(FieldPrograms)

SpecField == InitField /\ [][Next]_vars

(***************************************************************************)
(* Properties of moves through field paths                                 *)
(***************************************************************************)
\* L[i] is a successful Move read of a field path
IsFieldMove(L, i) == IsRead(L[i], {"Move"}) /\ L[i].res = "Ok" /\ Len(L[i].path) > 1

\* every read of the binding after a Move read of one of its fields, with no
\* re-binding between, is refused
MovedAfterFieldMove(L) ==
    \A i, j \in 1..Len(L) :
        (/\ i < j
         /\ IsFieldMove(L, i)
         /\ L[j].ev = "read" /\ SameBinding(L[i], L[j])
         /\ ~Rebound(L, i, j))
        => L[j].res = "Moved"

\* the reads of a log: mode, path and outcome
RECURSIVE Reads(_, _)
Reads(L, i) ==
    IF i > Len(L) THEN << >>
    ELSE (IF L[i].ev = "read" THEN <<<<L[i].mode, L[i].path, L[i].res>>>> ELSE << >>)
         \o Reads(L, i + 1)

AssignRefused(L) == \E i \in 1..Len(L) : L[i].ev = "assign" /\ L[i].res # "Ok"

\* C24: moving through a record moves the whole binding.  After a Move read of a
\* field path `p.f`, every later read of p or of a path `p.g`, in any mode, fails
\* with a moved-value error until p is re-declared or assigned; the checker and
\* the evaluator agree: both refuse these reads, and (where the evaluator did
\* not refuse an assignment) they perform the same reads with the same outcomes.
C24_FieldMoveMovesBinding ==
    /\ MovedAfterFieldMove(tc.log)
    /\ MovedAfterFieldMove(rlog)
    /\ HasMovedRead(tc.log) => cres.e = "Moved"
    /\ HasMovedRead(rlog) => rres.err.e = "Moved"
    /\ (cpc = "done" /\ runs > 0 /\ ~AssignRefused(rlog)) =>
          Reads(tc.log, 1) = Reads(rlog, 1)

\* a read of L in mode m of path q, refused after a Move read of a field
RefusedAfterFieldMove(L, m, q) ==
    \E i, j \in 1..Len(L) :
        /\ i < j
        /\ IsFieldMove(L, i)
        /\ IsRead(L[j], {m}) /\ L[j].path = q /\ L[j].res = "Moved"

\* u: i32 = p.a, then copy p.b refused by both
C24_Witness ==
    /\ RefusedAfterFieldMove(tc.log, "Copy", <<"p", "b">>)
    /\ RefusedAfterFieldMove(rlog, "Copy", <<"p", "b">>)
    /\ cres = Err("Moved", <<"p", "b">>)
    /\ rres.err = Err("Moved", <<"p">>)

\* the whole binding refused in Move and in Borrow mode
C24_WitnessWhole ==
    /\ RefusedAfterFieldMove(tc.log, "Borrow", <<"p">>)
    /\ RefusedAfterFieldMove(rlog, "Borrow", <<"p">>)

\* u: i32 = p.a, p re-declared, then p.b read by both
C24_WitnessRedeclared ==
    /\ \E i, j \in 1..Len(rlog) :
          /\ i < j
          /\ IsFieldMove(rlog, i)
          /\ Rebound(rlog, i, j)
          /\ IsRead(rlog[j], {"Move"}) /\ rlog[j].path = <<"p", "b">> /\ rlog[j].res = "Ok"
    /\ cres.e = "Ok"
    /\ rres = [err |-> OkE, val |-> VInt(4)]

(***************************************************************************)
(* Programs whose function f reads a top-level binding and calls h:        *)
(*   <global | let> g: i32 = 7                                             *)
(*   f() = <body>      h() <ret> = 1      (in either order)                *)
(*   main() = f()                                                          *)
(***************************************************************************)
G == PathE(<<"g">>)

CallH == FuncCall("h", << >>)

DeferTops == {GlobalD(FALSE, "g", I32, LitInt(7)), LetD(FALSE, "g", I32, LitInt(7))}

DeferBodies ==
    {BlockE(<<BindingS(FALSE, "y", I32, G)>>, Some(CallH)),
     BlockE(<<BindingS(FALSE, "y", I32, CopyE(G))>>, Some(CallH)),
     BlockE(<<BindingS(FALSE, "y", I32, CallH)>>, Some(G)),
     Binary(G, "Add", CallH),
     Binary(CallH, "Add", G),
     CallH}

DeferRets == {None, Some(I32)}

\* the declarations of f and h, in both orders
DeferFuncs(body, ret) ==
    {<<FuncD("f", << >>, None, body), FuncD("h", << >>, ret, LitInt(1))>>,
     <<FuncD("h", << >>, ret, LitInt(1)), FuncD("f", << >>, None, body)>>}

DeferPrograms ==
    {<<top>> \o fs \o <<FuncD("main", << >>, None, FuncCall("f", << >>))>> :
       top \in DeferTops,
       fs \in UNION {DeferFuncs(body, ret) : body \in DeferBodies, ret \in DeferRets}}

InitDefer == InitWith(DeferPrograms)

SpecDefer == InitDefer /\ [][Next]_vars

(***************************************************************************)
(* Properties of deferral                                                  *)
(***************************************************************************)
\* the moved flags of the bindings of a scope
MovedFlags(scope) == [n \in DOMAIN scope |-> scope[n].moved]

\* the check of fres[i] was deferred
Deferred(i) == fres[i].err.e = "UnknownFuncReturn"

\* C25: deferral leaves no trace.  When the check of a function ends in deferral
\* (UnknownFuncReturn), the moved flags of the top-level bindings are the same
\* after the abandoned attempt as before it, and the later re-check of the
\* deferred function does not fail with a moved-value error.
C25_DeferralLeavesNoTrace ==
    \A i \in 1..Len(fres) :
        Deferred(i) =>
           /\ MovedFlags(fres[i].g1) = MovedFlags(fres[i].g0)
           /\ \A j \in (i + 1)..Len(fres) :
                 fres[j].name = fres[i].name => fres[j].err.e # "Moved"

\* a deferred check that read g by copy or not at all leaves the flags alone
C25_DeferralAfterCopy ==
    \A i \in 1..Len(fres) :
        (Deferred(i) /\ fres[i].name = "f"
         /\ \A k \in 1..Len(tc.log) : ~IsRead(tc.log[k], {"Move"}))
        => MovedFlags(fres[i].g1) = MovedFlags(fres[i].g0)

(***************************************************************************)
(* Programs in which k names a parameter or a local of f:                  *)
(*   f(a: i32) = <body calling h>    h() <ret> = 1    k() = <a | x>        *)
(*   main() = 1                      (f, h and k in several orders)        *)
(***************************************************************************)
PrivBodies ==
    {CallH,
     BlockE(<< >>, Some(CallH)),
     BlockE(<<BindingS(FALSE, "x", I32, LitInt(1))>>, Some(CallH)),
     BlockE(<<BindingS(FALSE, "x", I32, LitInt(1))>>, Some(BlockE(<< >>, Some(CallH)))),
     BlockE(<<BindingS(FALSE, "x", I32, LitInt(1))>>, Some(PathE(<<"a">>)))}

\* the body of k: a read of a name of f
PrivReads == {PathE(<<"a">>), CopyE(PathE(<<"a">>)), X, RefE(X)}

PrivOrders == {<<1, 2, 3>>, <<1, 3, 2>>, <<2, 1, 3>>, <<3, 1, 2>>}

PrivFuncs(body, ret, rd) ==
    <<FuncD("f", <<Param(FALSE, "a", I32)>>, None, body),
      FuncD("h", << >>, ret, LitInt(1)),
      FuncD("k", << >>, None, rd)>>

PrivPrograms ==
    {[i \in 1..3 |-> PrivFuncs(body, ret, rd)[o[i]]] \o <<FuncD("main", << >>, None, LitInt(1))>> :
       body \in PrivBodies, ret \in DeferRets, rd \in PrivReads, o \in PrivOrders}

InitPriv == InitWith(PrivPrograms)

SpecPriv == InitPriv /\ [][Next]_vars

(***************************************************************************)
(* Properties of name resolution in the checker                            *)
(***************************************************************************)
\* the name the body of k reads
RECURSIVE ReadName(_)
ReadName(e) == IF e.k = "Path" THEN e.p[1] ELSE ReadName(e.inner)

\* C26: function-local names are private in the checker.  k has no parameter and
\* no local, and the program has no top-level binding: every check of k, whose
\* body reads a parameter or a local of f, fails with UnknownIdent of that name,
\* in whatever order the functions are checked and whether or not the check of f
\* was deferred before.
C26_LocalsPrivate ==
    \A i \in 1..Len(fres) :
        fres[i].name = "k" =>
           fres[i].err = Err("UnknownIdent", <<ReadName(FuncDecl("k").body)>>)

\* k checked before f, or after a check of f that was not deferred
C26_PrivateWithoutDeferral ==
    \A i \in 1..Len(fres) :
        (fres[i].name = "k" /\ \A j \in 1..(i - 1) : ~Deferred(j)) =>
           fres[i].err = Err("UnknownIdent", <<ReadName(FuncDecl("k").body)>>)

(***************************************************************************)
(* Programs in which the caller has a local in scope at the call:          *)
(*   <global | let> g: i32 = 7                                             *)
(*   get() -> i32 = <g | copy g | g + 0>                                   *)
(*   main() = { <g | z>: <i32 = 1 | Str = "s">  <get() | { get() }> }      *)
(***************************************************************************)
LexBodies == {G, CopyE(G), Binary(G, "Add", LitInt(0))}

LexLocals ==
    {BindingS(FALSE, n, I32, LitInt(1)) : n \in {"g", "z"}}
       \cup {BindingS(FALSE, n, Named("Str"), LitStr("s")) : n \in {"g", "z"}}

LexTails == {FuncCall("get", << >>), BlockE(<< >>, Some(FuncCall("get", << >>)))}

LexPrograms ==
    {<<top, FuncD("get", << >>, Some(I32), body),
       FuncD("main", << >>, None, BlockE(<<loc>>, Some(t)))>> :
       top \in DeferTops, body \in LexBodies, loc \in LexLocals, t \in LexTails}

InitLex == InitWith(LexPrograms)

SpecLex == InitLex /\ [][Next]_vars

(***************************************************************************)
(* Properties of name resolution in the evaluator                          *)
(***************************************************************************)
\* the depths at which the reads of name n in the log L found their binding
ReadDepths(L, n) == {L[i].depth : i \in {j \in 1..Len(L) : L[j].ev = "read" /\ L[j].name = n}}

\* C27: lexical name resolution at run time.  get reads g, which the checker
\* resolves to the top-level binding (scope 0); when the program checks, the
\* evaluator resolves that read to the same binding and run_main returns the
\* value of the global, 7, also when main has a local named g in scope at the
\* call.
C27_LexicalResolution ==
    /\ cres.e = "Ok" => ReadDepths(tc.log, "g") = {0}
    /\ (cres.e = "Ok" /\ runs > 0) =>
          /\ ReadDepths(rlog, "g") = {0}
          /\ rres = [err |-> OkE, val |-> VInt(7)]

\* with a local of another name the read reaches the global
C27_OtherNameReachesGlobal ==
    (cres.e = "Ok" /\ runs > 0 /\ MainBody.stmts[1].name = "z") =>
          /\ ReadDepths(rlog, "g") = {0}
          /\ rres = [err |-> OkE, val |-> VInt(7)]

(***************************************************************************)
(* Programs with two top-level bindings, the second initialised from the   *)
(* first:                                                                  *)
(*   <global | let> a: i32 = 1                                             *)
(*   <global | let> b: i32 = <2 | a | copy a | a + 1 | { copy a }>         *)
(*   main() = <b | copy a>                                                 *)
(***************************************************************************)
TopA == PathE(<<"a">>)

TopInits ==
    {LitInt(2), TopA, CopyE(TopA), Binary(TopA, "Add", LitInt(1)),
     BlockE(<< >>, Some(CopyE(TopA)))}

TopFirsts == {GlobalD(FALSE, "a", I32, LitInt(1)), LetD(FALSE, "a", I32, LitInt(1))}

TopSeconds ==
    {GlobalD(FALSE, "b", I32, v) : v \in TopInits}
       \cup {LetD(FALSE, "b", I32, v) : v \in TopInits}

TopPrograms ==
    {<<first, second, FuncD("main", << >>, None, body)>> :
       first \in TopFirsts, second \in TopSeconds,
       body \in {PathE(<<"b">>), CopyE(TopA)}}

InitTop == InitWith(TopPrograms)

SpecTop == InitTop /\ [][Next]_vars

(***************************************************************************)
(* Properties of top-level initialisers                                    *)
(***************************************************************************)
\* the initialiser of b
BInit == prog[2].b.value

ReadsEarlier == BInit # LitInt(2)

\* the value of the initialiser of b, a being 1
BValue == IF BInit \in {LitInt(2), Binary(TopA, "Add", LitInt(1))} THEN VInt(2) ELSE VInt(1)

\* C28: top-level bindings see earlier top-level bindings.  The checker accepts
\* an initialiser of b that reads the earlier top-level binding a (unless it
\* moves a that main reads again), and load_program then evaluates it with the
\* value of a, without a runtime error.
C28_TopLevelSeesEarlier ==
    /\ \A i \in 1..Len(tc.log) :
          (tc.log[i].ev = "decl" /\ tc.log[i].name = "b") => tc.log[i].depth = 0
    /\ (cres.e = "Ok" /\ ipc # "new") =>
          /\ lres = OkE
          /\ interp.globals["b"] = RBinding(FALSE, Some(BValue))

\* the checker accepted an initialiser that reads a
C28_CheckerAccepts ==
    (cpc = "done" /\ BInit \in {CopyE(TopA), BlockE(<< >>, Some(CopyE(TopA)))}) => cres.e = "Ok"

\* an initialiser that reads nothing loads
C28_LiteralLoads ==
    (cres.e = "Ok" /\ ipc # "new" /\ ~ReadsEarlier) =>
          /\ lres = OkE
          /\ interp.globals["b"] = RBinding(FALSE, Some(BValue))

(***************************************************************************)
(* Properties of the moves of globals across calls (ownership family:      *)
(* take() -> i32 = g, called from main any number of times)                *)
(***************************************************************************)
\* L[i] is a Move read of a binding of the global scope, refused as moved
GlobalMoveRefused(L, i) ==
    IsRead(L[i], {"Move"}) /\ L[i].depth = 0 /\ L[i].res = "Moved"

\* the calls of take in the statements of main
TakeCalls == {i \in 1..Len(MainBody.stmts) : MainBody.stmts[i] = ExprS(FuncCall("take", << >>))}

\* C29: global moves are accounted for across calls.  If check_program succeeds,
\* no global binding is Move-read while it is already moved in the execution of
\* main, and run_main does not fail with RuntimeError::Moved of a global, however
\* often main calls the function take whose body Move-reads the global g.
C29_GlobalMovesAccounted ==
    cres.e = "Ok" =>
       /\ \A i \in 1..Len(rlog) : ~GlobalMoveRefused(rlog, i)
       /\ rres.err # Err("Moved", <<"g">>)

\* with at most one call of take and no other read of g, the run does not
\* find g moved
C29_SingleCall ==
    (cres.e = "Ok" /\ Cardinality(TakeCalls) <= 1) =>
       \A i \in 1..Len(rlog) : ~GlobalMoveRefused(rlog, i)

(***************************************************************************)
(* Programs whose main moves or assigns a global:                          *)
(*   <global | let> [mut] g: i32 = 7                                       *)
(*   take() -> i32 = g                                                     *)
(*   main() = <body>                                                       *)
(***************************************************************************)
GPlus == Binary(CopyE(G), "Add", LitInt(1))

RepeatBodies ==
    {G, CopyE(G),
     BlockE(<<AssignS(<<"g">>, GPlus)>>, Some(G)),
     BlockE(<<AssignS(<<"g">>, GPlus)>>, Some(CopyE(G))),
     BlockE(<<AssignS(<<"g">>, LitInt(5))>>, Some(CopyE(G))),
     BlockE(<<AssignS(<<"g">>, Binary(G, "Add", LitInt(1)))>>, Some(CopyE(G))),
     BlockE(<<BindingS(FALSE, "y", I32, G)>>, Some(PathE(<<"y">>))),
     BlockE(<<ExprS(FuncCall("take", << >>))>>, Some(FuncCall("take", << >>))),
     BlockE(<<ExprS(FuncCall("print", <<LitStr("a")>>))>>, Some(FuncCall("take", << >>))),
     FuncCall("take", << >>)}

RepeatTops ==
    {GlobalD(m, "g", I32, LitInt(7)) : m \in BOOLEAN}
       \cup {LetD(m, "g", I32, LitInt(7)) : m \in BOOLEAN}

RepeatPrograms ==
    {<<top, FuncD("take", << >>, Some(I32), G), FuncD("main", << >>, None, body)>> :
       top \in RepeatTops, body \in RepeatBodies}

InitRepeat == InitWith(RepeatPrograms)

SpecRepeat == InitRepeat /\ [][Next]_vars

(***************************************************************************)
(* Properties of repeated runs                                             *)
(***************************************************************************)
\* what load_program stored for g
LoadedG == RBinding(prog[1].b.mutable, Some(VInt(7)))

\* C30: run_main is repeatable.  Every run_main call on a loaded interpreter
\* starts main with a copy of the globals as load_program stored them (g present
\* with its loaded value, also after a run that moved or assigned it), returns
\* the result the first call returned, and leaves the interpreter's stored
\* globals and functions as they were.
C30_RunMainRepeatable ==
    /\ \A k \in 1..Len(rhist) :
          /\ rhist[k].start = <<rhist[1].before.globals>>
          /\ rhist[k].start[1]["g"] = LoadedG
          /\ rhist[k].err = rhist[1].err
          /\ rhist[k].val = rhist[1].val
          /\ rhist[k].after = rhist[k].before
    /\ ipc = "loaded" =>
          /\ interp.globals = [n \in {"g"} |-> LoadedG]
          /\ DOMAIN interp.funcs = {"take", "main"}
          /\ \A n \in DOMAIN interp.funcs : interp.funcs[n] = FuncDecl(n)

\* the run left g moved in its environment
MovedInRun == rlog # << >> /\ \E i \in 1..Len(rlog) : IsRead(rlog[i], {"Move"}) /\ rlog[i].res = "Ok" /\ rlog[i].depth = 0

\* two runs of main() = g: both return 7, the first having moved g
C30_Witness ==
    /\ MainBody = G
    /\ Len(rhist) = 2
    /\ MovedInRun
    /\ rhist[1].err = OkE /\ rhist[1].val = VInt(7)
    /\ rhist[2].err = OkE /\ rhist[2].val = VInt(7)

\* two runs of main() = { g = copy g + 1  copy g }: both return 8
C30_WitnessAssigned ==
    /\ Len(rhist) = 2
    /\ \E i \in 1..Len(rlog) : rlog[i].ev = "assign" /\ rlog[i].res = "Ok" /\ rlog[i].depth = 0
    /\ rhist[1].val = VInt(8)
    /\ rhist[2].val = VInt(8)

\* two runs that both fail with a moved-value error
C30_WitnessFailing ==
    /\ Len(rhist) = 2
    /\ rhist[1].err = Err("Moved", <<"g">>)
    /\ rhist[2].err = Err("Moved", <<"g">>)

====
